---- MODULE Spec2Model ----
(***************************************************************************)
(* Signalink: the realtime edge (connection manager, Redis bridge, session *)
(* handler), the REST write path with its Kafka producer, and the          *)
(* analytics aggregator, as state machines translated from the source.     *)
(***************************************************************************)
EXTENDS Integers, Sequences, FiniteSets, TLC

\* ------------------------------------------------------------------ bounds
NumSessions == 2
NumInstances == 2
NumUsers == 2
NumChannels == 2
MaxMsgs == 2
MaxHandlers == 3
MaxErrors == 2
MaxTypingFrames == 3
MaxPongs == 1
MaxKafkaEvents == 3

Sessions == 1..NumSessions
Instances == 1..NumInstances
Users == 1..NumUsers
Channels == 1..NumChannels
\* The keys of the per-channel dictionaries: channel ids are plain strings, and
\* 0 stands for a string that is not a well-formed channel id.
ChannelKeys == Channels \cup {0}
MsgIds == 1..MaxMsgs

\* The username a token carries for a user id.
Username(u) == IF u = 1 THEN "alice" ELSE "bob"

\* Contents a client may put in a message.send frame ("" fails the store's
\* content_not_empty constraint).
Contents == {"hi", ""}

NoAttempt == [kind |-> "none", sess |-> 0, ch |-> 0, content |-> "",
              stage |-> "none", errored |-> FALSE, response |-> 0,
              audience |-> {}]
NoFrame == [type |-> "none"]
NoChange == [op |-> "none", stage |-> "none", response |-> 0]
NoError == [type |-> "none", error |-> "", about |-> ""]
NoBadFrame == [type |-> "none", shape |-> "none", reply |-> "none"]
IdleTask(c) ==
    [key |-> c, st |-> "idle", ch |-> 0, msg |-> 0, idx |-> 0, n |-> 0, to |-> 0]

VARIABLES
    \* per websocket / WebSocketHandler
    pc, user, instance_of, client_state, subscribed_channels, cur, recv, errors,
    \* ConnectionManager, per instance
    active_connections, websocket_to_user, channel_members,
    \* RedisManager, per instance
    message_handlers, subscription_tasks, tasks, pubsub_subs, pubsub_q, hseq,
    \* the Redis server (volatile KV and presence:updates)
    presence, presence_last,
    \* the durable store, the Kafka topic and the log of write attempts
    rows, attempt, frame, msgSeq, kafka_log,
    \* the store's is_edited and is_deleted columns (the ids of the rows that
    \* carry them) and, per message, the last PUT or DELETE request on it
    is_edited, is_deleted, change,
    \* each websocket's outbound sink, the sessions a send to which raised, the
    \* typing:<c> hashes and the typing.indicator frames
    sink, delivery_failed, typing, typing_frames,
    \* per websocket: the last error frame sent to it, the code it was closed
    \* with, the last frame of it that was refused, the pong frames sent to
    \* it, and how many connections its user had on the instance once it was
    \* added
    last_error, close_code, bad_frame, pongs, attached_as,
    \* per websocket: the number of fields HDEL removed for the typing.stop
    \* frame being served
    hdel_count

sessVars == <<pc, user, instance_of, client_state, subscribed_channels, cur, recv, errors>>
cmVars == <<active_connections, websocket_to_user, channel_members>>
rmVars == <<message_handlers, subscription_tasks, tasks, pubsub_subs, pubsub_q, hseq>>
redisVars == <<presence, presence_last>>
editVars == <<is_edited, is_deleted, change>>
dbVars == <<rows, attempt, frame, msgSeq, kafka_log, editVars>>
replyVars == <<last_error, close_code, bad_frame, pongs, attached_as, hdel_count>>
ioVars == <<sink, delivery_failed, typing, typing_frames, replyVars>>
wsVars == <<sessVars, cmVars, rmVars, redisVars, dbVars, ioVars>>

\* ------------------------------------------------------------ construction
WsInit ==
    /\ pc = [s \in Sessions |-> "new"]
    /\ user = [s \in Sessions |-> 0]
    /\ instance_of = [s \in Sessions |-> 0]
    /\ client_state = [s \in Sessions |-> "CONNECTING"]
    /\ subscribed_channels = [s \in Sessions |-> {}]
    /\ cur = [s \in Sessions |-> 0]
    /\ recv = [s \in Sessions |-> <<>>]
    /\ errors = [s \in Sessions |-> 0]
    /\ active_connections = [i \in Instances |-> [u \in Users |-> {}]]
    /\ websocket_to_user = [i \in Instances |-> [s \in Sessions |-> 0]]
    /\ channel_members = [i \in Instances |-> [c \in ChannelKeys |-> {}]]
    /\ message_handlers = [i \in Instances |-> [c \in ChannelKeys |-> {}]]
    /\ subscription_tasks = [i \in Instances |-> [c \in ChannelKeys |-> 0]]
    /\ tasks = [i \in Instances |-> <<>>]
    /\ pubsub_subs = [i \in Instances |-> {}]
    /\ pubsub_q = [i \in Instances |-> <<>>]
    /\ hseq = [i \in Instances |-> 0]
    /\ presence = {}
    /\ presence_last = [u \in Users |-> "none"]
    /\ rows = {}
    /\ attempt = [m \in MsgIds |-> NoAttempt]
    /\ frame = [m \in MsgIds |-> NoFrame]
    /\ msgSeq = 0
    /\ kafka_log = <<>>
    /\ is_edited = {}
    /\ is_deleted = {}
    /\ change = [m \in MsgIds |-> NoChange]
    /\ sink = [s \in Sessions |-> "open"]
    /\ delivery_failed = {}
    /\ typing = [c \in Channels |-> {}]
    /\ typing_frames = [s \in Sessions |-> <<>>]
    /\ last_error = [s \in Sessions |-> NoError]
    /\ close_code = [s \in Sessions |-> 0]
    /\ bad_frame = [s \in Sessions |-> NoBadFrame]
    /\ pongs = [s \in Sessions |-> 0]
    /\ attached_as = [s \in Sessions |-> 0]
    /\ hdel_count = [s \in Sessions |-> 0]

\* ------------------------------------------------ ConnectionManager.connect
\* Instance i accepts websocket s for user u: accept(), then the registration
\* up to the first broker call.
ConnectAccept(s, u, i) ==
    /\ pc[s] = "new"
    /\ instance_of' = [instance_of EXCEPT ![s] = i]
    /\ pc' = [pc EXCEPT ![s] = "conn_online"]
    /\ user' = [user EXCEPT ![s] = u]
    /\ client_state' = [client_state EXCEPT ![s] = "CONNECTED"]
    /\ active_connections' = [active_connections EXCEPT ![i][u] = @ \cup {s}]
    /\ websocket_to_user' = [websocket_to_user EXCEPT ![i][s] = u]
    /\ attached_as' = [attached_as EXCEPT ![s] =
           Cardinality(active_connections[i][u] \cup {s})]
    /\ UNCHANGED <<subscribed_channels, cur, recv, errors, channel_members,
                   rmVars, redisVars, dbVars>>
    /\ UNCHANGED <<sink, delivery_failed, typing, typing_frames, last_error,
                   close_code, bad_frame, pongs, hdel_count>>

\* RedisManager.set_user_online: SETEX user:presence:<u> 300 "online".
set_user_online(u) == presence \cup {u}

\* RedisManager.set_user_offline: DEL user:presence:<u>.
set_user_offline(u) == presence \ {u}

ConnectOnline(s) ==
    /\ pc[s] = "conn_online"
    /\ presence' = set_user_online(user[s])
    /\ pc' = [pc EXCEPT ![s] = "conn_publish"]
    /\ UNCHANGED <<user, instance_of, client_state, subscribed_channels, cur, recv, errors,
                   cmVars, rmVars, presence_last, dbVars>>
    /\ UNCHANGED ioVars

\* publish_presence_update(user, "online"); the endpoint then creates the
\* handler and enters its message loop.
ConnectPublish(s) ==
    /\ pc[s] = "conn_publish"
    /\ presence_last' = [presence_last EXCEPT ![user[s]] = "online"]
    /\ pc' = [pc EXCEPT ![s] = "active"]
    /\ UNCHANGED <<user, instance_of, client_state, subscribed_channels, cur, recv, errors,
                   cmVars, rmVars, presence, dbVars>>
    /\ UNCHANGED ioVars

\* --------------------------------------------------------- RedisManager
\* WebSocketHandler.create_channel_message_handler: every call returns a new
\* closure; closures are compared by identity, so a new one equals none of
\* those registered before.
create_channel_message_handler(s) ==
    [id |-> hseq[instance_of[s]] + 1, sess |-> s]

\* RedisManager.unsubscribe_from_channel, the test for "no more handlers".
UnsubTearsDown(i, c, h) ==
    /\ message_handlers[i][c] # {}
    /\ message_handlers[i][c] \ {h} = {}

\* RedisManager.unsubscribe_from_channel(c, h) for every c of cs (one channel
\* for a channel.unsubscribe frame, the subscribed set for cleanup()).
RedisUnsubscribe(i, cs, h) ==
    LET torn == {c \in cs : UnsubTearsDown(i, c, h)} IN
    /\ message_handlers' = [message_handlers EXCEPT ![i] =
           [c \in ChannelKeys |-> IF c \in cs THEN @[c] \ {h} ELSE @[c]]]
    /\ pubsub_subs' = [pubsub_subs EXCEPT ![i] = @ \ torn]
    /\ tasks' = [tasks EXCEPT ![i] =
           [t \in DOMAIN @ |->
               IF \E c \in torn : subscription_tasks[i][c] = t
               THEN [@[t] EXCEPT !.st = "cancelled"] ELSE @[t]]]
    /\ subscription_tasks' = [subscription_tasks EXCEPT ![i] =
           [c \in ChannelKeys |-> IF c \in torn THEN 0 ELSE @[c]]]

\* ------------------------------------------- channel.subscribe / unsubscribe
\* ConnectionManager.subscribe_to_channel and unsubscribe_from_channel on one
\* instance's channel_members cm (an absent key and an empty set are the same).
subscribe_to_channel(cm, u, c) == [cm EXCEPT ![c] = @ \cup {u}]
unsubscribe_from_channel(cm, u, c) == [cm EXCEPT ![c] = @ \ {u}]

\* handle_channel_subscribe up to "await self.pubsub.subscribe(channel_key)":
\* ConnectionManager.subscribe_to_channel (by user id), then the handler is
\* registered; when a listener task exists the frame completes here.
SubscribeBegin(s, c) ==
    LET i == instance_of[s]
        h == create_channel_message_handler(s) IN
    /\ pc[s] = "active"
    /\ hseq[i] < MaxHandlers
    /\ channel_members' = [channel_members EXCEPT
           ![i] = subscribe_to_channel(@, user[s], c)]
    /\ message_handlers' = [message_handlers EXCEPT ![i][c] = @ \cup {h}]
    /\ hseq' = [hseq EXCEPT ![i] = @ + 1]
    /\ IF subscription_tasks[i][c] = 0
       THEN /\ pc' = [pc EXCEPT ![s] = "sub_wait"]
            /\ cur' = [cur EXCEPT ![s] = c]
            /\ UNCHANGED subscribed_channels
       ELSE /\ subscribed_channels' = [subscribed_channels EXCEPT ![s] = @ \cup {c}]
            /\ UNCHANGED <<pc, cur>>
    /\ UNCHANGED <<user, instance_of, client_state, recv, errors, active_connections,
                   websocket_to_user, subscription_tasks, tasks, pubsub_subs,
                   pubsub_q, redisVars, dbVars>>
    /\ UNCHANGED ioVars

\* The rest of RedisManager.subscribe_to_channel after the await: SUBSCRIBE took
\* effect, the listener task is created and stored; then the handler tracks
\* the channel and replies success.
SubscribeFinish(s) ==
    LET i == instance_of[s]
        c == cur[s] IN
    /\ pc[s] = "sub_wait"
    /\ pubsub_subs' = [pubsub_subs EXCEPT ![i] = @ \cup {c}]
    /\ tasks' = [tasks EXCEPT ![i] = Append(@, IdleTask(c))]
    /\ subscription_tasks' = [subscription_tasks EXCEPT ![i][c] = Len(tasks[i]) + 1]
    /\ subscribed_channels' = [subscribed_channels EXCEPT ![s] = @ \cup {c}]
    /\ pc' = [pc EXCEPT ![s] = "active"]
    /\ cur' = [cur EXCEPT ![s] = 0]
    /\ UNCHANGED <<user, instance_of, client_state, recv, errors, cmVars, message_handlers,
                   pubsub_q, hseq, redisVars, dbVars>>
    /\ UNCHANGED ioVars

\* handle_channel_unsubscribe: ConnectionManager.unsubscribe_from_channel (by
\* user id), RedisManager.unsubscribe_from_channel with a new closure, then
\* subscribed_channels.discard and the success reply.
Unsubscribe(s, c) ==
    LET i == instance_of[s] IN
    /\ pc[s] = "active"
    /\ channel_members' = [channel_members EXCEPT
           ![i] = unsubscribe_from_channel(@, user[s], c)]
    /\ RedisUnsubscribe(i, {c}, create_channel_message_handler(s))
    /\ subscribed_channels' = [subscribed_channels EXCEPT ![s] = @ \ {c}]
    /\ UNCHANGED <<pc, user, instance_of, client_state, cur, recv, errors, active_connections,
                   websocket_to_user, pubsub_q, hseq, redisVars, dbVars>>
    /\ UNCHANGED ioVars

\* handle_ping without its set_user_online call.
PingWithoutRenewal(s) ==
    /\ pc[s] = "active"
    /\ pongs[s] < MaxPongs
    /\ pongs' = [pongs EXCEPT ![s] = @ + 1]
    /\ UNCHANGED <<sessVars, cmVars, rmVars, redisVars, dbVars>>
    /\ UNCHANGED <<sink, delivery_failed, typing, typing_frames, last_error,
                   close_code, bad_frame, attached_as, hdel_count>>

\* handle_ping: pong, then the presence key is renewed.
Ping(s) ==
    /\ pc[s] = "active"
    /\ pongs[s] < MaxPongs
    /\ pongs' = [pongs EXCEPT ![s] = @ + 1]
    /\ presence' = set_user_online(user[s])
    /\ UNCHANGED <<sessVars, cmVars, rmVars, presence_last, dbVars>>
    /\ UNCHANGED <<sink, delivery_failed, typing, typing_frames, last_error,
                   close_code, bad_frame, attached_as, hdel_count>>

\* ------------------------------------------------ cleanup and disconnect
\* ConnectionManager.disconnect, the removal from websocket_to_user and from
\* every channel's member set (by user id).
DisconnectTail(s) ==
    LET i == instance_of[s]
        u == websocket_to_user[i][s] IN
    /\ websocket_to_user' = [websocket_to_user EXCEPT ![i][s] = 0]
    /\ channel_members' = [channel_members EXCEPT ![i] =
           [c \in ChannelKeys |-> @[c] \ {u}]]

\* The endpoint's finally block after the peer closed: handler.cleanup()
\* (unsubscribe every tracked channel with a new closure, clear the set), then
\* ConnectionManager.disconnect up to its first broker call.
EndpointFinally(s) ==
    LET i == instance_of[s]
        u == websocket_to_user[i][s] IN
    /\ pc[s] = "active"
    /\ client_state' = [client_state EXCEPT ![s] = "DISCONNECTED"]
    /\ RedisUnsubscribe(i, subscribed_channels[s], create_channel_message_handler(s))
    /\ subscribed_channels' = [subscribed_channels EXCEPT ![s] = {}]
    /\ IF u = 0
       THEN \* already detached after a failed send: disconnect returns at once
            /\ pc' = [pc EXCEPT ![s] = "closed"]
            /\ UNCHANGED <<active_connections, websocket_to_user, channel_members>>
       ELSE /\ active_connections' = [active_connections EXCEPT ![i][u] = @ \ {s}]
            /\ IF active_connections[i][u] \ {s} = {}
               THEN /\ pc' = [pc EXCEPT ![s] = "disc_offline"]
                    /\ UNCHANGED <<websocket_to_user, channel_members>>
               ELSE /\ pc' = [pc EXCEPT ![s] = "closed"]
                    /\ DisconnectTail(s)
    /\ UNCHANGED <<user, instance_of, cur, recv, errors, pubsub_q, hseq, redisVars, dbVars>>

\* The peer closed (WebSocketDisconnect): the finally block runs and nothing
\* is sent.
DisconnectBegin(s) ==
    /\ EndpointFinally(s)
    /\ UNCHANGED ioVars

DisconnectOffline(s) ==
    /\ pc[s] = "disc_offline"
    /\ presence' = set_user_offline(user[s])
    /\ pc' = [pc EXCEPT ![s] = "disc_publish"]
    /\ UNCHANGED <<user, instance_of, client_state, subscribed_channels, cur, recv, errors,
                   cmVars, rmVars, presence_last, dbVars>>
    /\ UNCHANGED ioVars

DisconnectFinish(s) ==
    /\ pc[s] = "disc_publish"
    /\ presence_last' = [presence_last EXCEPT ![user[s]] = "offline"]
    /\ DisconnectTail(s)
    /\ pc' = [pc EXCEPT ![s] = "closed"]
    /\ UNCHANGED <<user, instance_of, client_state, subscribed_channels, cur, recv, errors,
                   active_connections, rmVars, presence, dbVars>>
    /\ UNCHANGED ioVars

\* ------------------------------------------------------------ error frames
\* The WSError frame send_error builds: its text starts with msg and, for an
\* unknown type, goes on with the type; about is the frame type it answers.
WSError(msg, about) == [type |-> "error", error |-> msg, about |-> about]

\* A client frame the server refused: its type, what is wrong with it, and
\* what the server did ("error" frame, "none", or "close" of the websocket).
BadFrame(ty, shape, reply) == [type |-> ty, shape |-> shape, reply |-> reply]

\* WebSocketHandler.send_error: one error frame to the handler's websocket.
send_error(s, msg, about) ==
    /\ errors' = [errors EXCEPT ![s] = @ + 1]
    /\ last_error' = [last_error EXCEPT ![s] = WSError(msg, about)]

\* ------------------------------------------------------------ authentication
WS_1008_POLICY_VIOLATION == 1008
WS_1011_INTERNAL_ERROR == 1011

\* JWT tokens, by what decode_token and get_current_user_ws test: whether
\* jwt.decode accepts the token, its "sub" claim (a UUID, another text, or
\* absent), whether "username" is present, and the user a UUID names.
Tokens ==
    [decodes : {"ok", "bad_signature", "undecodable"},
     sub : {"uuid", "text", "missing"},
     username : {"present", "missing"},
     uid : Users]

\* decode_token: the payload, or WebSocketException(1008) on JWTError.
decode_token(token) ==
    IF token.decodes = "ok"
    THEN [ok |-> TRUE, code |-> 0]
    ELSE [ok |-> FALSE, code |-> WS_1008_POLICY_VIOLATION]

\* get_current_user_ws: the user of the token, or the WebSocketException it
\* raises (ok = FALSE, with the exception's code).
get_current_user_ws(token) ==
    IF ~decode_token(token).ok
    THEN [ok |-> FALSE, code |-> decode_token(token).code, user_id |-> 0]
    ELSE IF token.sub = "missing" \/ token.username = "missing"
    THEN [ok |-> FALSE, code |-> WS_1008_POLICY_VIOLATION, user_id |-> 0]
    ELSE IF token.sub # "uuid"
    THEN [ok |-> FALSE, code |-> WS_1008_POLICY_VIOLATION, user_id |-> 0]
    ELSE [ok |-> TRUE, code |-> 0, user_id |-> token.uid]

\* An endpoint that calls connection_manager.connect before it authenticates:
\* the websocket is registered under the token's user and the user is marked
\* online before the token is refused.
ConnectRejectAfterConnect(s, token) ==
    /\ pc[s] = "new"
    /\ ~get_current_user_ws(token).ok
    /\ active_connections' = [active_connections EXCEPT ![1][token.uid] = @ \cup {s}]
    /\ websocket_to_user' = [websocket_to_user EXCEPT ![1][s] = token.uid]
    /\ presence' = presence \cup {token.uid}
    /\ close_code' = [close_code EXCEPT ![s] = WS_1011_INTERNAL_ERROR]
    /\ client_state' = [client_state EXCEPT ![s] = "DISCONNECTED"]
    /\ pc' = [pc EXCEPT ![s] = "closed"]
    /\ UNCHANGED <<user, instance_of, subscribed_channels, cur, recv, errors,
                   channel_members, rmVars, presence_last, dbVars>>
    /\ UNCHANGED <<sink, delivery_failed, typing, typing_frames, last_error, bad_frame,
                   pongs, attached_as, hdel_count>>

\* websocket_endpoint when get_current_user_ws raises: the exception is caught
\* by the endpoint's own "except Exception", which closes with 1011 whatever
\* the exception carries; no handler exists and disconnect finds no user.
ConnectReject(s, token) ==
    /\ pc[s] = "new"
    /\ ~get_current_user_ws(token).ok
    /\ close_code' = [close_code EXCEPT ![s] = WS_1011_INTERNAL_ERROR]
    /\ client_state' = [client_state EXCEPT ![s] = "DISCONNECTED"]
    /\ pc' = [pc EXCEPT ![s] = "closed"]
    /\ UNCHANGED <<user, instance_of, subscribed_channels, cur, recv, errors,
                   cmVars, rmVars, redisVars, dbVars>>
    /\ UNCHANGED <<sink, delivery_failed, typing, typing_frames, last_error, bad_frame,
                   pongs, attached_as, hdel_count>>

\* websocket_endpoint with a token get_current_user_ws accepts.
ConnectWithToken(s, token, i) ==
    /\ get_current_user_ws(token).ok
    /\ ConnectAccept(s, get_current_user_ws(token).user_id, i)

\* ------------------------------------------------------------ refused frames
\* The frame types handle_message routes, and those whose schema requires a
\* channel_id.
RecognizedTypes ==
    {"message.send", "channel.subscribe", "channel.unsubscribe",
     "typing.start", "typing.stop", "ping"}
FieldTypes == RecognizedTypes \ {"ping"}
TypingTypes == {"typing.start", "typing.stop"}

\* Types a client may send that handle_message does not route; "None" is what
\* data.get("type") gives for a frame without a type.
UnknownTypes == {"message.delete", "None"}

\* An exception leaves the message loop: the endpoint's "except Exception"
\* closes the websocket with 1011 and the finally block runs.  receive_json
\* raises on text that is not JSON, and data.get, called outside the try of
\* handle_message, raises on JSON that is not an object.
FrameRaises(s, shape) ==
    /\ EndpointFinally(s)
    /\ close_code' = [close_code EXCEPT ![s] = WS_1011_INTERNAL_ERROR]
    /\ bad_frame' = [bad_frame EXCEPT ![s] = BadFrame("none", shape, "close")]
    /\ UNCHANGED <<sink, delivery_failed, typing, typing_frames, last_error,
                   pongs, attached_as, hdel_count>>

\* handle_message if its else branch raised instead of answering.
UnknownFrameRaising(s, ty) ==
    /\ ty \in UnknownTypes
    /\ EndpointFinally(s)
    /\ close_code' = [close_code EXCEPT ![s] = WS_1011_INTERNAL_ERROR]
    /\ bad_frame' = [bad_frame EXCEPT ![s] = BadFrame(ty, "unknown_type", "close")]
    /\ UNCHANGED <<sink, delivery_failed, typing, typing_frames, last_error,
                   pongs, attached_as, hdel_count>>

\* handle_message, the else branch: send_error("Unknown message type: <ty>").
UnknownFrame(s, ty) ==
    /\ ty \in UnknownTypes
    /\ pc[s] = "active"
    /\ errors[s] < MaxErrors
    /\ send_error(s, "Unknown message type", ty)
    /\ bad_frame' = [bad_frame EXCEPT ![s] = BadFrame(ty, "unknown_type", "error")]
    /\ UNCHANGED <<pc, user, instance_of, client_state, subscribed_channels, cur, recv,
                   cmVars, rmVars, redisVars, dbVars>>
    /\ UNCHANGED <<sink, delivery_failed, typing, typing_frames, close_code,
                   pongs, attached_as, hdel_count>>

\* The text of the error frame each handler's except branch sends.
FailedText(ty) ==
    IF ty = "message.send" THEN "Failed to send message"
    ELSE IF ty = "channel.subscribe" THEN "Failed to subscribe"
    ELSE "Failed to unsubscribe"

\* A frame of a recognized type without its channel_id: the schema's
\* constructor raises inside the handler's try.  handle_send_message,
\* handle_channel_subscribe and handle_channel_unsubscribe answer with
\* send_error; handle_typing_start and handle_typing_stop only log.
InvalidFrame(s, ty) ==
    /\ ty \in FieldTypes
    /\ pc[s] = "active"
    /\ errors[s] < MaxErrors
    /\ IF ty \in TypingTypes
       THEN /\ bad_frame' = [bad_frame EXCEPT ![s] = BadFrame(ty, "missing_field", "none")]
            /\ UNCHANGED <<errors, last_error>>
       ELSE /\ bad_frame' = [bad_frame EXCEPT ![s] = BadFrame(ty, "missing_field", "error")]
            /\ send_error(s, FailedText(ty), ty)
    /\ UNCHANGED <<pc, user, instance_of, client_state, subscribed_channels, cur, recv,
                   cmVars, rmVars, redisVars, dbVars>>
    /\ UNCHANGED <<sink, delivery_failed, typing, typing_frames, close_code,
                   pongs, attached_as, hdel_count>>

\* ------------------------------------------------------------ message.send
\* The message.receive frame handle_send_message builds from the frame it got.
WSMessageReceive(s, m, c, content) ==
    [type |-> "message.receive", message_id |-> m, channel_id |-> c,
     user_id |-> user[s], username |-> Username(user[s]), content |-> content]

\* Whether the durable insert of a message.send succeeds: UUID(channel_id) must
\* parse (c = 0 stands for a malformed id), the row must satisfy
\* content_not_empty, and the store must accept the commit.
InsertSucceeds(c, content, dbOk) ==
    c # 0 /\ content # "" /\ dbOk

\* handle_send_message without its except branch: the frame goes on to the
\* publish whether or not the insert committed, and no error frame is sent.
SendCommitWithoutExcept(s, c, content, dbOk) ==
    LET m == msgSeq + 1 IN
    /\ pc[s] = "active"
    /\ msgSeq < MaxMsgs
    /\ msgSeq' = m
    /\ rows' = IF InsertSucceeds(c, content, dbOk) THEN rows \cup {m} ELSE rows
    /\ attempt' = [attempt EXCEPT ![m] =
           [kind |-> "ws", sess |-> s, ch |-> c, content |-> content,
            stage |-> "committed", errored |-> FALSE, response |-> 0,
            audience |-> {}]]
    /\ pc' = [pc EXCEPT ![s] = "send_publish"]
    /\ cur' = [cur EXCEPT ![s] = m]
    /\ UNCHANGED <<user, instance_of, client_state, subscribed_channels, recv, errors,
                   cmVars, rmVars, redisVars, frame, kafka_log, editVars>>
    /\ UNCHANGED ioVars

\* handle_send_message up to and including "await self.db.commit()"; on any
\* exception the except branch sends the error frame and the frame is done.
SendCommit(s, c, content, dbOk) ==
    LET m == msgSeq + 1 IN
    /\ pc[s] = "active"
    /\ msgSeq < MaxMsgs
    /\ msgSeq' = m
    /\ IF InsertSucceeds(c, content, dbOk)
       THEN /\ rows' = rows \cup {m}
            /\ attempt' = [attempt EXCEPT ![m] =
                   [kind |-> "ws", sess |-> s, ch |-> c, content |-> content,
                    stage |-> "committed", errored |-> FALSE, response |-> 0,
                    audience |-> {}]]
            /\ pc' = [pc EXCEPT ![s] = "send_publish"]
            /\ cur' = [cur EXCEPT ![s] = m]
            /\ UNCHANGED errors
            /\ UNCHANGED <<last_error, bad_frame>>
       ELSE /\ attempt' = [attempt EXCEPT ![m] =
                   [kind |-> "ws", sess |-> s, ch |-> c, content |-> content,
                    stage |-> "failed", errored |-> TRUE, response |-> 0,
                    audience |-> {}]]
            /\ send_error(s, "Failed to send message", "message.send")
            /\ bad_frame' = IF c = 0
                             THEN [bad_frame EXCEPT ![s] =
                                      BadFrame("message.send", "malformed_id", "error")]
                             ELSE bad_frame
            /\ UNCHANGED <<rows, pc, cur>>
    /\ UNCHANGED <<user, instance_of, client_state, subscribed_channels, recv, cmVars, rmVars,
                   redisVars, frame, kafka_log, editVars>>
    /\ UNCHANGED <<sink, delivery_failed, typing, typing_frames, close_code,
                   pongs, attached_as, hdel_count>>

\* The sessions (of any instance) that track channel c as subscribed.
Subscribers(c) == {s \in Sessions : c \in subscribed_channels[s]}

\* publish_message without its own try/except: a failed PUBLISH reaches the
\* except branch of handle_send_message, which sends the error frame.
SendPublishRaising(s, pubOk) ==
    LET m == cur[s]
        c == attempt[m].ch IN
    /\ pc[s] = "send_publish"
    /\ IF pubOk
       THEN /\ frame' = [frame EXCEPT ![m] =
                   WSMessageReceive(s, m, c, attempt[m].content)]
            /\ pubsub_q' = [i \in Instances |->
                   IF c \in pubsub_subs[i]
                   THEN Append(pubsub_q[i], [ch |-> c, msg |-> m])
                   ELSE pubsub_q[i]]
            /\ attempt' = [attempt EXCEPT ![m].stage = "published",
                                          ![m].audience = Subscribers(c)]
            /\ UNCHANGED errors
       ELSE /\ attempt' = [attempt EXCEPT ![m].stage = "publish_failed",
                                          ![m].errored = TRUE]
            /\ errors' = [errors EXCEPT ![s] = @ + 1]
            /\ UNCHANGED <<frame, pubsub_q>>
    /\ pc' = [pc EXCEPT ![s] = "active"]
    /\ cur' = [cur EXCEPT ![s] = 0]
    /\ UNCHANGED <<user, instance_of, client_state, subscribed_channels, recv, cmVars,
                   message_handlers, subscription_tasks, tasks, pubsub_subs, hseq,
                   redisVars, rows, msgSeq, kafka_log, editVars>>
    /\ UNCHANGED ioVars

\* RedisManager.publish_message: PUBLISH channel:<c>; Redis hands the payload to
\* every connection subscribed to the channel. A failure is logged and
\* swallowed inside publish_message. The attempt log notes who was subscribed
\* at that moment.
SendPublish(s, pubOk) ==
    LET m == cur[s]
        c == attempt[m].ch IN
    /\ pc[s] = "send_publish"
    /\ IF pubOk
       THEN /\ frame' = [frame EXCEPT ![m] =
                   WSMessageReceive(s, m, c, attempt[m].content)]
            /\ pubsub_q' = [i \in Instances |->
                   IF c \in pubsub_subs[i]
                   THEN Append(pubsub_q[i], [ch |-> c, msg |-> m])
                   ELSE pubsub_q[i]]
            /\ attempt' = [attempt EXCEPT ![m].stage = "published",
                                          ![m].audience = Subscribers(c)]
       ELSE /\ attempt' = [attempt EXCEPT ![m].stage = "publish_failed"]
            /\ UNCHANGED <<frame, pubsub_q>>
    /\ pc' = [pc EXCEPT ![s] = "active"]
    /\ cur' = [cur EXCEPT ![s] = 0]
    /\ UNCHANGED <<user, instance_of, client_state, subscribed_channels, recv, errors, cmVars,
                   message_handlers, subscription_tasks, tasks, pubsub_subs, hseq,
                   redisVars, rows, msgSeq, kafka_log, editVars>>
    /\ UNCHANGED ioVars

\* ------------------------------------------------- _listen_to_channel
\* The k-th handler a listener's "for handler in self.message_handlers[ch]"
\* visits (the set's iteration order, fixed while the set is unchanged).
NthHandler(hs, k) ==
    CHOOSE h \in hs : Cardinality({g \in hs : g.id < h.id}) = k - 1

\* A closure that sends without looking at the websocket's state.
HandlerSendsUnchecked(h) == TRUE

\* The closure returned by create_channel_message_handler, called with a
\* payload: send_json when the websocket is connected, else drop.
HandlerDelivers(h) == client_state[h.sess] = "CONNECTED"

\* send_json does not return while the websocket's sink is stalled.
HandlerBlocks(h) == HandlerDelivers(h) /\ sink[h.sess] = "stalled"

\* The frames received after the handler's send_json returned normally.
RecvAfterHandler(h, m) ==
    IF HandlerDelivers(h) /\ sink[h.sess] = "open"
    THEN [recv EXCEPT ![h.sess] = Append(@, m)]
    ELSE recv

\* send_json on a broken sink raises; the closure logs the exception.
FailedAfterHandler(h) ==
    IF HandlerDelivers(h) /\ sink[h.sess] = "broken"
    THEN delivery_failed \cup {h.sess}
    ELSE delivery_failed

\* The task record while "await handler(data)" is pending for handler h, the
\* k-th of n.
AwaitingHandler(tk, h, c, m, k, n) ==
    [tk EXCEPT !.st = IF HandlerBlocks(h) THEN "sending" ELSE "busy",
               !.ch = c, !.msg = m, !.idx = k, !.n = n,
               !.to = IF HandlerBlocks(h) THEN h.sess ELSE 0]

\* One listener task takes the next message of the instance's shared pubsub
\* connection and calls the first handler registered for the message's channel.
ListenerReceive(i, t) ==
    LET head == Head(pubsub_q[i])
        hs == message_handlers[i][head.ch] IN
    /\ t \in DOMAIN tasks[i]
    /\ tasks[i][t].st = "idle"
    /\ pubsub_q[i] # <<>>
    /\ pubsub_q' = [pubsub_q EXCEPT ![i] = Tail(@)]
    /\ IF hs = {}
       THEN UNCHANGED <<tasks, recv, delivery_failed>>
       ELSE LET h == NthHandler(hs, 1) IN
            /\ tasks' = [tasks EXCEPT ![i][t] =
                   AwaitingHandler(@, h, head.ch, head.msg, 1, Cardinality(hs))]
            /\ recv' = RecvAfterHandler(h, head.msg)
            /\ delivery_failed' = FailedAfterHandler(h)
    /\ UNCHANGED <<pc, user, instance_of, client_state, subscribed_channels, cur, errors,
                   cmVars, message_handlers, subscription_tasks, pubsub_subs,
                   hseq, redisVars, dbVars>>
    /\ UNCHANGED <<sink, typing, typing_frames, replyVars>>

\* The listener resumes from "await handler(data)": the set iterator raises
\* RuntimeError when the set changed size (caught, the dispatch ends), stops
\* after the last handler, and otherwise calls the next one.
ListenerNext(i, t) ==
    LET tk == tasks[i][t]
        hs == message_handlers[i][tk.ch] IN
    /\ t \in DOMAIN tasks[i]
    /\ tk.st = "busy"
    /\ IF Cardinality(hs) # tk.n \/ tk.idx = tk.n
       THEN /\ tasks' = [tasks EXCEPT ![i][t] = IdleTask(tk.key)]
            /\ UNCHANGED <<recv, delivery_failed>>
       ELSE LET h == NthHandler(hs, tk.idx + 1) IN
            /\ tasks' = [tasks EXCEPT ![i][t] =
                   AwaitingHandler(@, h, tk.ch, tk.msg, tk.idx + 1, tk.n)]
            /\ recv' = RecvAfterHandler(h, tk.msg)
            /\ delivery_failed' = FailedAfterHandler(h)
    /\ UNCHANGED <<pc, user, instance_of, client_state, subscribed_channels, cur, errors,
                   cmVars, message_handlers, subscription_tasks, pubsub_subs,
                   pubsub_q, hseq, redisVars, dbVars>>
    /\ UNCHANGED <<sink, typing, typing_frames, replyVars>>

\* A send_json that waited on a stalled sink returns: the frame was written
\* once the sink drained, or the send raised because the sink broke.
ListenerSendReturns(i, t) ==
    LET tk == tasks[i][t]
        h == [sess |-> tk.to] IN
    /\ t \in DOMAIN tasks[i]
    /\ tk.st = "sending"
    /\ sink[tk.to] # "stalled"
    /\ tasks' = [tasks EXCEPT ![i][t] = [@ EXCEPT !.st = "busy", !.to = 0]]
    /\ recv' = RecvAfterHandler(h, tk.msg)
    /\ delivery_failed' =
           IF sink[tk.to] = "open" /\ HandlerDelivers(h)
           THEN delivery_failed ELSE delivery_failed \cup {tk.to}
    /\ UNCHANGED <<pc, user, instance_of, client_state, subscribed_channels, cur, errors,
                   cmVars, message_handlers, subscription_tasks, pubsub_subs,
                   pubsub_q, hseq, redisVars, dbVars>>
    /\ UNCHANGED <<sink, typing, typing_frames, replyVars>>

\* ------------------------------------------------- the websockets' sinks
\* The peer stops reading: the transport's write buffer fills and send_json
\* waits for it to drain.
SinkStalls(s) ==
    /\ pc[s] = "active"
    /\ sink[s] = "open"
    /\ sink' = [sink EXCEPT ![s] = "stalled"]
    /\ UNCHANGED <<sessVars, cmVars, rmVars, redisVars, dbVars, delivery_failed,
                   typing, typing_frames, replyVars>>

\* The peer reads again.
SinkDrains(s) ==
    /\ sink[s] = "stalled"
    /\ sink' = [sink EXCEPT ![s] = "open"]
    /\ UNCHANGED <<sessVars, cmVars, rmVars, redisVars, dbVars, delivery_failed,
                   typing, typing_frames, replyVars>>

\* The connection is lost: every later send_json on the websocket raises.
SinkBreaks(s) ==
    /\ pc[s] = "active"
    /\ sink[s] # "broken"
    /\ sink' = [sink EXCEPT ![s] = "broken"]
    /\ UNCHANGED <<sessVars, cmVars, rmVars, redisVars, dbVars, delivery_failed,
                   typing, typing_frames, replyVars>>

\* ------------------------------------------------- typing indicators
\* The typing.indicator frame handle_typing_start / handle_typing_stop build.
WSTypingIndicator(s, c, is_typing) ==
    [type |-> "typing.indicator", channel_id |-> c, user_id |-> user[s],
     username |-> Username(user[s]), is_typing |-> is_typing]

\* handle_typing_start up to the broadcast: set_user_typing stores the user's
\* field in typing:<c> (the publish on channel:<c>:typing has no subscriber).
TypingStart(s, c) ==
    /\ pc[s] = "active"
    /\ \A ws \in Sessions : Len(typing_frames[ws]) < MaxTypingFrames
    /\ typing' = [typing EXCEPT ![c] = @ \cup {user[s]}]
    /\ pc' = [pc EXCEPT ![s] = "typing_start"]
    /\ cur' = [cur EXCEPT ![s] = c]
    /\ UNCHANGED <<user, instance_of, client_state, subscribed_channels, recv, errors,
                   cmVars, rmVars, redisVars, dbVars>>
    /\ UNCHANGED <<sink, delivery_failed, typing_frames, replyVars>>

\* handle_typing_stop up to the broadcast: remove_user_typing deletes the
\* user's field of typing:<c>.
TypingStop(s, c) ==
    /\ pc[s] = "active"
    /\ \A ws \in Sessions : Len(typing_frames[ws]) < MaxTypingFrames
    /\ typing' = [typing EXCEPT ![c] = @ \ {user[s]}]
    /\ hdel_count' = [hdel_count EXCEPT ![s] = IF user[s] \in typing[c] THEN 1 ELSE 0]
    /\ pc' = [pc EXCEPT ![s] = "typing_stop"]
    /\ cur' = [cur EXCEPT ![s] = c]
    /\ UNCHANGED <<user, instance_of, client_state, subscribed_channels, recv, errors,
                   cmVars, rmVars, redisVars, dbVars>>
    /\ UNCHANGED <<sink, delivery_failed, typing_frames, last_error, close_code,
                   bad_frame, pongs, attached_as>>

\* The typing:<c> key expires 10 seconds after the last typing.start.
TypingExpire(c) ==
    /\ typing[c] # {}
    /\ typing' = [typing EXCEPT ![c] = {}]
    /\ UNCHANGED <<sessVars, cmVars, rmVars, redisVars, dbVars>>
    /\ UNCHANGED <<sink, delivery_failed, typing_frames, replyVars>>

\* broadcast_to_channel if it did not skip exclude_user.
BroadcastTargetsAll(i, c, exclude_user) ==
    UNION {active_connections[i][u] : u \in channel_members[i][c]}

\* The websockets broadcast_to_channel(message, c, exclude_user) sends to on
\* instance i: every connection of every member user but the excluded one.
BroadcastTargets(i, c, exclude_user) ==
    UNION {active_connections[i][u] : u \in channel_members[i][c] \ {exclude_user}}

\* The users of instance i left without a connection when the websockets F
\* are removed.
UsersEmptied(i, F) ==
    {u \in Users : active_connections[i][u] # {} /\ active_connections[i][u] \subseteq F}

\* broadcast_to_channel through send_personal_message: send_json to every
\* target (it waits while a target's sink is stalled); the websockets whose
\* send raised are passed to ConnectionManager.disconnect.
TypingBroadcast(s) ==
    LET i == instance_of[s]
        c == cur[s]
        targets == BroadcastTargets(i, c, user[s])
        F == {ws \in targets : sink[ws] = "broken"}
        gone == {websocket_to_user[i][ws] : ws \in F}
        fr == WSTypingIndicator(s, c, pc[s] = "typing_start") IN
    /\ pc[s] \in {"typing_start", "typing_stop"}
    /\ \A ws \in targets : sink[ws] # "stalled"
    /\ typing_frames' = [ws \in Sessions |->
           IF ws \in targets \ F THEN Append(typing_frames[ws], fr)
           ELSE typing_frames[ws]]
    /\ delivery_failed' = delivery_failed \cup F
    /\ active_connections' = [active_connections EXCEPT ![i] =
           [u \in Users |-> @[u] \ F]]
    /\ websocket_to_user' = [websocket_to_user EXCEPT ![i] =
           [ws \in Sessions |-> IF ws \in F THEN 0 ELSE @[ws]]]
    /\ channel_members' = [channel_members EXCEPT ![i] =
           [ch \in ChannelKeys |-> @[ch] \ gone]]
    /\ presence' = presence \ UsersEmptied(i, F)
    /\ presence_last' = [u \in Users |->
           IF u \in UsersEmptied(i, F) THEN "offline" ELSE presence_last[u]]
    /\ pc' = [pc EXCEPT ![s] = "active"]
    /\ cur' = [cur EXCEPT ![s] = 0]
    /\ hdel_count' = [hdel_count EXCEPT ![s] = 0]
    /\ UNCHANGED <<user, instance_of, client_state, subscribed_channels, recv, errors,
                   rmVars, dbVars, sink, typing, last_error, close_code, bad_frame,
                   pongs, attached_as>>

\* ------------------------------------------------ REST POST /messages/
\* send_message up to "await db.commit()": 404/403 when the channel or the
\* membership is missing, 500 when the commit raises.
RestCommit(u, c, allowed, dbOk) ==
    LET m == msgSeq + 1
        base == [kind |-> "rest", sess |-> u, ch |-> c, content |-> "hi",
                 stage |-> "failed", errored |-> TRUE, response |-> 0,
                 audience |-> {}] IN
    /\ msgSeq < MaxMsgs
    /\ msgSeq' = m
    /\ IF ~allowed
       THEN /\ attempt' = [attempt EXCEPT ![m] = [base EXCEPT !.response = 403]]
            /\ UNCHANGED rows
       ELSE IF ~dbOk
       THEN /\ attempt' = [attempt EXCEPT ![m] = [base EXCEPT !.response = 500]]
            /\ UNCHANGED rows
       ELSE /\ attempt' = [attempt EXCEPT ![m] =
                   [base EXCEPT !.stage = "committed", !.errored = FALSE]]
            /\ rows' = rows \cup {m}
    /\ UNCHANGED <<sessVars, cmVars, rmVars, redisVars, frame, kafka_log, editVars>>
    /\ UNCHANGED ioVars

\* KafkaProducerManager.publish_message_event through publish_event: the event
\* is appended to the topic or the failure is logged and False returned; the
\* route then returns the message (201).
RestPublish(m, kafkaOk) ==
    /\ attempt[m].kind = "rest"
    /\ attempt[m].stage = "committed"
    /\ IF kafkaOk
       THEN /\ kafka_log' = Append(kafka_log,
                   [event_type |-> "message.created", message_id |-> m,
                    channel_id |-> attempt[m].ch, user_id |-> attempt[m].sess])
            /\ attempt' = [attempt EXCEPT ![m].stage = "published",
                                          ![m].response = 201]
       ELSE /\ attempt' = [attempt EXCEPT ![m].stage = "publish_failed",
                                          ![m].response = 201]
            /\ UNCHANGED kafka_log
    /\ UNCHANGED <<sessVars, cmVars, rmVars, redisVars, rows, frame, msgSeq, editVars>>
    /\ UNCHANGED ioVars

\* ------------------------------------- REST PUT and DELETE /messages/{id}
\* Message.user_id of row m: the user of the token that created it.
AuthorOf(m) ==
    IF attempt[m].kind = "rest" THEN attempt[m].sess ELSE user[attempt[m].sess]

\* update_message and delete_message up to and including "await db.commit()",
\* one request at a time: 404 when no undeleted row has the id, 403 when the
\* caller may not change it, 500 when the commit raises; nothing is written in
\* these cases. Otherwise the column is set and committed.
CommitChange(op, m, allowed, dbOk) ==
    LET req == [op |-> op, stage |-> "failed", response |-> 0] IN
    /\ \A k \in MsgIds : change[k].stage # "committed"
    /\ Len(kafka_log) < MaxKafkaEvents
    /\ IF m \notin rows \/ m \in is_deleted
       THEN /\ change' = [change EXCEPT ![m] = [req EXCEPT !.response = 404]]
            /\ UNCHANGED <<is_edited, is_deleted>>
       ELSE IF ~allowed
       THEN /\ change' = [change EXCEPT ![m] = [req EXCEPT !.response = 403]]
            /\ UNCHANGED <<is_edited, is_deleted>>
       ELSE IF ~dbOk
       THEN /\ change' = [change EXCEPT ![m] = [req EXCEPT !.response = 500]]
            /\ UNCHANGED <<is_edited, is_deleted>>
       ELSE /\ change' = [change EXCEPT ![m] = [req EXCEPT !.stage = "committed"]]
            /\ is_edited' = IF op = "edit" THEN is_edited \cup {m} ELSE is_edited
            /\ is_deleted' = IF op = "delete" THEN is_deleted \cup {m} ELSE is_deleted
    /\ UNCHANGED <<sessVars, cmVars, rmVars, redisVars, rows, attempt, frame, msgSeq,
                   kafka_log>>
    /\ UNCHANGED ioVars

\* A route that hands the event to the producer before the commit is known to
\* have succeeded.
update_message_publishing_first(m, allowed, dbOk) ==
    LET req == [op |-> "edit", stage |-> "failed", response |-> 0] IN
    /\ \A k \in MsgIds : change[k].stage # "committed"
    /\ Len(kafka_log) < MaxKafkaEvents
    /\ m \in rows \ is_deleted
    /\ allowed
    /\ kafka_log' = Append(kafka_log,
           [event_type |-> "message.edited", message_id |-> m,
            channel_id |-> attempt[m].ch, user_id |-> AuthorOf(m)])
    /\ IF dbOk
       THEN /\ change' = [change EXCEPT ![m] =
                   [req EXCEPT !.stage = "published", !.response = 200]]
            /\ is_edited' = is_edited \cup {m}
       ELSE /\ change' = [change EXCEPT ![m] = [req EXCEPT !.response = 500]]
            /\ UNCHANGED is_edited
    /\ UNCHANGED <<sessVars, cmVars, rmVars, redisVars, rows, attempt, frame, msgSeq,
                   is_deleted>>
    /\ UNCHANGED ioVars

\* update_message up to its commit: content and is_edited are set on the row.
update_message(m, allowed, dbOk) == CommitChange("edit", m, allowed, dbOk)

\* delete_message up to its commit: the soft delete sets is_deleted.
delete_message(m, allowed, dbOk) == CommitChange("delete", m, allowed, dbOk)

\* The rest of update_message and delete_message: publish_message_event with
\* message.edited or message.deleted inside try/except, then the response
\* (200 with the message, 204 without a body).
PublishChange(m, kafkaOk) ==
    LET edit == change[m].op = "edit" IN
    /\ change[m].stage = "committed"
    /\ IF kafkaOk
       THEN /\ kafka_log' = Append(kafka_log,
                   [event_type |-> IF edit THEN "message.edited" ELSE "message.deleted",
                    message_id |-> m, channel_id |-> attempt[m].ch,
                    user_id |-> AuthorOf(m)])
            /\ change' = [change EXCEPT ![m].stage = "published",
                                        ![m].response = IF edit THEN 200 ELSE 204]
       ELSE /\ change' = [change EXCEPT ![m].stage = "publish_failed",
                                        ![m].response = IF edit THEN 200 ELSE 204]
            /\ UNCHANGED kafka_log
    /\ UNCHANGED <<sessVars, cmVars, rmVars, redisVars, rows, attempt, frame, msgSeq,
                   is_edited, is_deleted>>
    /\ UNCHANGED ioVars


\* ------------------------------------------------- AnalyticsConsumer
\* settings.metrics_window_seconds
metrics_window_seconds == 60

\* Bounds of the aggregator runs: the clock advances TickSeconds at a time up
\* to MaxTime, and at most MaxEvents events are consumed.
TickSeconds == 30
MaxTime == 150
MaxEvents == 3
NumAggUsers == 2
NumAggChannels == 2
\* The window sizes the window arithmetic is checked for.
MaxWindowSeconds == 61

AggUsers == 1..NumAggUsers
AggChannels == 1..NumAggChannels
MessageTypes == {"text", "image"}
\* A message_type that is a string outside the store's four types, and one
\* that is no string but a JSON list or object (not hashable).
UnlistedType == "video"
UnhashableType == "unhashable"
\* The keys the message_types defaultdict can come to hold.
CountedTypes == MessageTypes \cup {UnlistedType}
EventTypes == {"message.created", "message.edited", "message.deleted", "user.joined"}

\* The events the topic may carry; user_id or channel_id 0 stands for a
\* missing field. Edited and deleted events carry the default message_type.
Events ==
    {[event_type |-> "message.created", user_id |-> u, channel_id |-> c,
      message_type |-> mt] :
        u \in AggUsers \cup {0}, c \in AggChannels \cup {0}, mt \in MessageTypes}
    \cup
    {[event_type |-> et, user_id |-> u, channel_id |-> c, message_type |-> "text"] :
        et \in EventTypes \ {"message.created"},
        u \in AggUsers \cup {0}, c \in AggChannels \cup {0}}

VARIABLES
    now, running, current_window_start,
    message_count, active_users, unique_senders, active_channels, message_types,
    channel_metrics, user_metrics,
    \* the metrics store
    message_metrics_rows, channel_metrics_rows, user_metrics_rows,
    \* history: events consumed, message.created events counted (in all and
    \* per ingestion window and channel), failed flushes, events skipped for a
    \* missing field
    consumed, created_processed, created_log, flush_failures, skipped

bufVars == <<message_count, active_users, unique_senders, active_channels,
             message_types, channel_metrics, user_metrics>>
storeVars == <<message_metrics_rows, channel_metrics_rows, user_metrics_rows>>
aggVars == <<now, running, current_window_start, bufVars, storeVars,
             consumed, created_processed, created_log, flush_failures, skipped>>
vars == <<wsVars, aggVars>>

\* The defaultdict entries of channel_metrics and user_metrics.
NewChannelMetrics ==
    [message_count |-> 0, unique_senders |-> {}, created |-> 0, edited |-> 0,
     deleted |-> 0]
NewUserMetrics ==
    [messages_sent |-> 0, messages_edited |-> 0, messages_deleted |-> 0,
     channels |-> {}]

\* d[k], created with its default on first access.
Entry(d, k, default) == IF k \in DOMAIN d THEN d[k] ELSE default

\* d with d[k] set to v (the key is added when absent).
Put(d, k, v) == [x \in DOMAIN d \cup {k} |-> IF x = k THEN v ELSE d[x]]

EmptyDict == [x \in {} |-> 0]

\* A window number rounded to the nearest window instead of floored.
window_number_rounded(seconds_since_epoch, window_seconds) ==
    (seconds_since_epoch + window_seconds \div 2) \div window_seconds

\* window_number = int(seconds_since_epoch // window_seconds); a timestamp is
\* its number of seconds since the epoch.
window_number(seconds_since_epoch, window_seconds) ==
    seconds_since_epoch \div window_seconds

\* epoch + timedelta(seconds=window_number * window_seconds)
WindowStartFor(timestamp, window_seconds) ==
    window_number(timestamp, window_seconds) * window_seconds

_get_window_start(timestamp) == WindowStartFor(timestamp, metrics_window_seconds)

\* The window starts the clock of a run can fall into.
Windows == {_get_window_start(t) : t \in 0..MaxTime}

_should_flush_window(event_timestamp) ==
    _get_window_start(event_timestamp) > current_window_start

\* The rows _flush_metrics_to_db adds to its session. The id of a channel or
\* user row (a fresh uuid4 in the code) is the number of the flush and the key.
MessageMetricsRow ==
    [time_window |-> current_window_start,
     window_duration_seconds |-> metrics_window_seconds,
     message_count |-> message_count,
     \* message_count / metrics_window_seconds, kept as the fraction
     messages_per_second |-> <<message_count, metrics_window_seconds>>,
     active_users_count |-> Cardinality(active_users),
     unique_senders_count |-> Cardinality(unique_senders),
     active_channels_count |-> Cardinality(active_channels),
     text_messages_count |-> message_types["text"],
     image_messages_count |-> message_types["image"]]

ChannelMetricsRow(c) ==
    [id |-> <<Len(message_metrics_rows) + 1, c>>,
     channel_id |-> c, time_window |-> current_window_start,
     message_count |-> channel_metrics[c].message_count,
     unique_senders_count |-> Cardinality(channel_metrics[c].unique_senders),
     messages_per_second |-> <<channel_metrics[c].message_count, metrics_window_seconds>>,
     created_count |-> channel_metrics[c].created,
     edited_count |-> channel_metrics[c].edited,
     deleted_count |-> channel_metrics[c].deleted]

UserMetricsRow(u) ==
    [id |-> <<Len(message_metrics_rows) + 1, u>>,
     user_id |-> u, time_window |-> current_window_start,
     messages_sent |-> user_metrics[u].messages_sent,
     messages_edited |-> user_metrics[u].messages_edited,
     messages_deleted |-> user_metrics[u].messages_deleted,
     channels_active |-> Cardinality(user_metrics[u].channels)]

\* _flush_metrics_to_db: the rows are added and committed, or the exception is
\* caught, the session rolled back, and the call returns normally.
_flush_metrics_to_db(dbOk) ==
    IF dbOk
    THEN /\ message_metrics_rows' = Append(message_metrics_rows, MessageMetricsRow)
         /\ channel_metrics_rows' = channel_metrics_rows \cup
                {ChannelMetricsRow(c) : c \in DOMAIN channel_metrics}
         /\ user_metrics_rows' = user_metrics_rows \cup
                {UserMetricsRow(u) : u \in DOMAIN user_metrics}
         /\ UNCHANGED flush_failures
    ELSE /\ flush_failures' = flush_failures + 1
         /\ UNCHANGED storeVars

\* The buffers after _reset_buffers.
ResetBuffers ==
    [message_count |-> 0, active_users |-> {}, unique_senders |-> {},
     active_channels |-> {}, message_types |-> [mt \in CountedTypes |-> 0],
     channel_metrics |-> EmptyDict, user_metrics |-> EmptyDict]

CurrentBuffers ==
    [message_count |-> message_count, active_users |-> active_users,
     unique_senders |-> unique_senders, active_channels |-> active_channels,
     message_types |-> message_types, channel_metrics |-> channel_metrics,
     user_metrics |-> user_metrics]

\* An update that counts every event as a message.
CountEveryEvent(b, ev) == [b EXCEPT !.message_count = @ + 1]

\* The buffers b after the "update metrics based on event type" part of
\* process_event for an event that carries user_id and channel_id.
CountEvent(b, ev) ==
    LET u == ev.user_id
        c == ev.channel_id
        cm == Entry(b.channel_metrics, c, NewChannelMetrics)
        um == Entry(b.user_metrics, u, NewUserMetrics) IN
    IF ev.event_type = "message.created" /\ ev.message_type = UnhashableType
    THEN \* message_types[message_type] += 1 raises TypeError: the lines before
         \* it have run, the per-channel and per-user updates have not
         [b EXCEPT !.message_count = @ + 1,
                   !.active_users = @ \cup {u},
                   !.unique_senders = @ \cup {u},
                   !.active_channels = @ \cup {c}]
    ELSE IF ev.event_type = "message.created"
    THEN [message_count |-> b.message_count + 1,
          active_users |-> b.active_users \cup {u},
          unique_senders |-> b.unique_senders \cup {u},
          active_channels |-> b.active_channels \cup {c},
          message_types |-> [b.message_types EXCEPT ![ev.message_type] = @ + 1],
          channel_metrics |-> Put(b.channel_metrics, c,
              [cm EXCEPT !.message_count = @ + 1,
                         !.unique_senders = @ \cup {u},
                         !.created = @ + 1]),
          user_metrics |-> Put(b.user_metrics, u,
              [um EXCEPT !.messages_sent = @ + 1, !.channels = @ \cup {c}])]
    ELSE IF ev.event_type = "message.edited"
    THEN [b EXCEPT !.channel_metrics = Put(b.channel_metrics, c, [cm EXCEPT !.edited = @ + 1]),
                   !.user_metrics = Put(b.user_metrics, u, [um EXCEPT !.messages_edited = @ + 1])]
    ELSE IF ev.event_type = "message.deleted"
    THEN [b EXCEPT !.channel_metrics = Put(b.channel_metrics, c, [cm EXCEPT !.deleted = @ + 1]),
                   !.user_metrics = Put(b.user_metrics, u, [um EXCEPT !.messages_deleted = @ + 1])]
    ELSE b

SetBuffers(b) ==
    /\ message_count' = b.message_count
    /\ active_users' = b.active_users
    /\ unique_senders' = b.unique_senders
    /\ active_channels' = b.active_channels
    /\ message_types' = b.message_types
    /\ channel_metrics' = b.channel_metrics
    /\ user_metrics' = b.user_metrics

\* A field check that looks at user_id alone.
HasUserId(ev) == ev.user_id # 0

\* Whether process_event counts the event (it returns early otherwise).
HasRequiredFields(ev) == ev.user_id # 0 /\ ev.channel_id # 0

\* A rollover block that flushes and advances the window without calling
\* _reset_buffers.
BuffersKeptAtRollover(flush) == CurrentBuffers

\* The buffers process_event continues with after its rollover block.
BuffersAfterRollover(flush) == IF flush THEN ResetBuffers ELSE CurrentBuffers

\* process_event(event): the timestamp is the receiving wall clock; on a new
\* window the buffers are flushed, reset and the window advanced; an event
\* without user_id or channel_id is skipped; the rest is counted.
process_event(ev, dbOk) ==
    LET flush == _should_flush_window(now)
        b == BuffersAfterRollover(flush) IN
    /\ running
    /\ consumed < MaxEvents
    /\ consumed' = consumed + 1
    /\ IF flush
       THEN /\ _flush_metrics_to_db(dbOk)
            /\ current_window_start' = _get_window_start(now)
       ELSE /\ dbOk
            /\ UNCHANGED <<storeVars, flush_failures, current_window_start>>
    /\ IF HasRequiredFields(ev)
       THEN /\ SetBuffers(CountEvent(b, ev))
            /\ created_processed' = created_processed +
                   (IF ev.event_type = "message.created" THEN 1 ELSE 0)
            /\ created_log' =
                   IF ev.event_type = "message.created"
                   THEN [created_log EXCEPT
                            ![_get_window_start(now)][ev.channel_id] = @ + 1]
                   ELSE created_log
            /\ UNCHANGED skipped
       ELSE /\ SetBuffers(b)
            /\ skipped' = skipped + 1
            /\ UNCHANGED <<created_processed, created_log>>
    /\ UNCHANGED <<now, running>>

\* process_event of a record whose value is JSON but no object (a string, a
\* number, a list, null): event.get raises before the rollover block, the
\* handler's except logs it, and nothing but the read position has moved.
ProcessNonObject ==
    /\ running
    /\ consumed < MaxEvents
    /\ consumed' = consumed + 1
    /\ UNCHANGED <<now, running, current_window_start, bufVars, storeVars,
                   created_processed, created_log, flush_failures, skipped>>

\* A record whose bytes are not UTF-8 JSON. value_deserializer (json.loads of
\* the decoded bytes) runs inside the consumer's iterator, so process_event
\* and the inner try are never entered. The client library either hands the
\* exception to the async for (raises): the outer except logs "Error in
\* consumer loop", the finally block cancels the flush task and flushes what
\* message_count shows, and start_consuming returns; running = FALSE stands
\* for the ended loop and task. Or it drops the record and iterates on.
UndecodableRecord(raises, dbOk) ==
    /\ running
    /\ consumed < MaxEvents
    /\ consumed' = consumed + 1
    /\ running' = ~raises
    /\ IF raises /\ message_count > 0
       THEN _flush_metrics_to_db(dbOk)
       ELSE /\ dbOk
            /\ UNCHANGED <<storeVars, flush_failures>>
    /\ UNCHANGED <<now, current_window_start, bufVars, created_processed,
                   created_log, skipped>>

\* A periodic round that flushes without resetting the buffers or advancing
\* the window.
PeriodicFlushKeepingWindow(dbOk) ==
    /\ running
    /\ message_count > 0
    /\ now - current_window_start >= metrics_window_seconds
    /\ _flush_metrics_to_db(dbOk)
    /\ UNCHANGED <<now, running, current_window_start, bufVars, consumed,
                   created_processed, created_log, skipped>>

\* One round of _periodic_flush_task after its sleep, when it has data and the
\* window is at least metrics_window_seconds old.
PeriodicFlush(dbOk) ==
    /\ running
    /\ message_count > 0
    /\ now - current_window_start >= metrics_window_seconds
    /\ _flush_metrics_to_db(dbOk)
    /\ SetBuffers(ResetBuffers)
    /\ current_window_start' = _get_window_start(now)
    /\ UNCHANGED <<now, running, consumed, created_processed, created_log, skipped>>

\* stop() ends the consume loop; its finally block flushes what is left.
StopConsuming(dbOk) ==
    /\ running
    /\ running' = FALSE
    /\ IF message_count > 0
       THEN _flush_metrics_to_db(dbOk)
       ELSE /\ dbOk
            /\ UNCHANGED <<storeVars, flush_failures>>
    /\ UNCHANGED <<now, current_window_start, bufVars, consumed, created_processed,
                   created_log, skipped>>

\* The wall clock, advancing by any number of seconds.
ClockAdvances(d) ==
    /\ now + d <= MaxTime
    /\ now' = now + d
    /\ UNCHANGED <<running, current_window_start, bufVars, storeVars, consumed,
                   created_processed, created_log, flush_failures, skipped>>

\* The wall clock.
Tick ==
    /\ now + TickSeconds <= MaxTime
    /\ now' = now + TickSeconds
    /\ UNCHANGED <<running, current_window_start, bufVars, storeVars, consumed,
                   created_processed, created_log, flush_failures, skipped>>

\* The aggregator after start() at time now: running, with the window of the
\* start time.
AggStart ==
    /\ running = TRUE
    /\ current_window_start = _get_window_start(now)
    /\ message_count = 0
    /\ active_users = {}
    /\ unique_senders = {}
    /\ active_channels = {}
    /\ message_types = [mt \in CountedTypes |-> 0]
    /\ channel_metrics = EmptyDict
    /\ user_metrics = EmptyDict
    /\ message_metrics_rows = <<>>
    /\ channel_metrics_rows = {}
    /\ user_metrics_rows = {}
    /\ consumed = 0
    /\ created_processed = 0
    /\ created_log = [w \in Windows |-> [c \in AggChannels |-> 0]]
    /\ flush_failures = 0
    /\ skipped = 0

AggInit ==
    /\ now = 0
    /\ AggStart

\* ------------------------------------------------------- specifications
Init == WsInit /\ AggInit

\* Websocket 1 is user 1's, accepted by instance 1; the other websockets
\* carry any user's token and reach any instance.
TokenUsers(s) == IF s = 1 THEN {1} ELSE Users
AcceptingInstances(s) == IF s = 1 THEN {1} ELSE Instances

\* Connection lifecycle.
ConnectNext ==
    \/ \E s \in Sessions, u \in Users, i \in Instances :
           /\ u \in TokenUsers(s) /\ i \in AcceptingInstances(s)
           /\ ConnectAccept(s, u, i) /\ UNCHANGED aggVars
    \/ \E s \in Sessions : ConnectOnline(s) /\ UNCHANGED aggVars
    \/ \E s \in Sessions : ConnectPublish(s) /\ UNCHANGED aggVars

DisconnectNext ==
    \/ \E s \in Sessions : DisconnectBegin(s) /\ UNCHANGED aggVars
    \/ \E s \in Sessions : DisconnectOffline(s) /\ UNCHANGED aggVars
    \/ \E s \in Sessions : DisconnectFinish(s) /\ UNCHANGED aggVars

SubscribeNext ==
    \/ \E s \in Sessions, c \in Channels : SubscribeBegin(s, c) /\ UNCHANGED aggVars
    \/ \E s \in Sessions : SubscribeFinish(s) /\ UNCHANGED aggVars

ListenerNextStep ==
    \/ \E i \in Instances, t \in 1..MaxHandlers : ListenerReceive(i, t) /\ UNCHANGED aggVars
    \/ \E i \in Instances, t \in 1..MaxHandlers : ListenerNext(i, t) /\ UNCHANGED aggVars

\* Sessions, subscriptions and presence: every connection-manager and
\* broker-registry operation, without message traffic.
Next ==
    \/ ConnectNext
    \/ SubscribeNext
    \/ \E s \in Sessions, c \in Channels : Unsubscribe(s, c) /\ UNCHANGED aggVars
    \/ \E s \in Sessions : Ping(s) /\ UNCHANGED aggVars
    \/ DisconnectNext

Spec == Init /\ [][Next]_vars

\* Fan-out: the sessions subscribe, websocket 1 sends well-formed messages to
\* channel 1 that the store and the broker accept, and the listener tasks
\* deliver them. Websocket s carries the token of user s.
FanoutNext ==
    \/ \E s \in Sessions, i \in Instances :
           /\ s \in Users /\ i \in AcceptingInstances(s)
           /\ ConnectAccept(s, s, i) /\ UNCHANGED aggVars
    \/ \E s \in Sessions : ConnectOnline(s) /\ UNCHANGED aggVars
    \/ \E s \in Sessions : ConnectPublish(s) /\ UNCHANGED aggVars
    \/ SubscribeNext
    \/ SendCommit(1, 1, "hi", TRUE) /\ UNCHANGED aggVars
    \/ SendPublish(1, TRUE) /\ UNCHANGED aggVars
    \/ ListenerNextStep

SpecFanout == Init /\ [][FanoutNext]_vars

\* The write paths: message.send over the websocket and POST /messages/, with
\* every outcome of the store and of the brokers.
WriteNext ==
    \/ ConnectNext
    \/ \E s \in Sessions, c \in Channels \cup {0}, content \in Contents, dbOk \in BOOLEAN :
           SendCommit(s, c, content, dbOk) /\ UNCHANGED aggVars
    \/ \E s \in Sessions, pubOk \in BOOLEAN : SendPublish(s, pubOk) /\ UNCHANGED aggVars
    \/ \E u \in Users, c \in Channels, allowed \in BOOLEAN, dbOk \in BOOLEAN :
           RestCommit(u, c, allowed, dbOk) /\ UNCHANGED aggVars
    \/ \E m \in MsgIds, kafkaOk \in BOOLEAN : RestPublish(m, kafkaOk) /\ UNCHANGED aggVars
    \/ DisconnectNext

SpecWrite == Init /\ [][WriteNext]_vars

\* Broadcasts over a sink that stalls or breaks: the sessions of instance 1
\* subscribe to channel 1, websocket 1 sends one message to it and types in
\* it, websocket 2's sink stalls, drains or breaks (a websocket whose
\* connection is lost sends no more frames), and the listener tasks and the
\* typing broadcast deliver.
BroadcastNext ==
    \/ \E s \in Sessions : s \in Users /\ ConnectAccept(s, s, 1) /\ UNCHANGED aggVars
    \/ \E s \in Sessions : ConnectOnline(s) /\ UNCHANGED aggVars
    \/ \E s \in Sessions : ConnectPublish(s) /\ UNCHANGED aggVars
    \/ \E s \in Sessions :
           sink[s] # "broken" /\ SubscribeBegin(s, 1) /\ UNCHANGED aggVars
    \/ \E s \in Sessions : SubscribeFinish(s) /\ UNCHANGED aggVars
    \/ SinkStalls(2) /\ UNCHANGED aggVars
    \/ SinkDrains(2) /\ UNCHANGED aggVars
    \/ SinkBreaks(2) /\ UNCHANGED aggVars
    \/ msgSeq = 0 /\ SendCommit(1, 1, "hi", TRUE) /\ UNCHANGED aggVars
    \/ SendPublish(1, TRUE) /\ UNCHANGED aggVars
    \/ ListenerNextStep
    \/ \E i \in Instances, t \in 1..MaxHandlers :
           ListenerSendReturns(i, t) /\ UNCHANGED aggVars
    \/ TypingStart(1, 1) /\ UNCHANGED aggVars
    \/ TypingBroadcast(1) /\ UNCHANGED aggVars

SpecBroadcast == Init /\ [][BroadcastNext]_vars

\* The websocket endpoint frame by frame on one instance, with no message
\* traffic: authentication, the frames of websocket 1 (valid, unknown,
\* invalid and not even an object), typing indicators and the end of sessions.
FramesNext ==
    \/ \E s \in Sessions, token \in Tokens :
           token.uid = s /\ ConnectWithToken(s, token, 1) /\ UNCHANGED aggVars
    \/ \E s \in Sessions, token \in Tokens :
           ConnectReject(s, token) /\ UNCHANGED aggVars
    \/ \E s \in Sessions : ConnectOnline(s) /\ UNCHANGED aggVars
    \/ \E s \in Sessions : ConnectPublish(s) /\ UNCHANGED aggVars
    \/ \E c \in {0, 1} :
           c \notin subscribed_channels[1] /\ SubscribeBegin(1, c) /\ UNCHANGED aggVars
    \/ 1 \notin subscribed_channels[2] /\ SubscribeBegin(2, 1) /\ UNCHANGED aggVars
    \/ \E s \in Sessions : SubscribeFinish(s) /\ UNCHANGED aggVars
    \/ Unsubscribe(1, 1) /\ UNCHANGED aggVars
    \/ user[1] \notin typing[1] /\ TypingStart(1, 1) /\ UNCHANGED aggVars
    \/ TypingBroadcast(1) /\ UNCHANGED aggVars
    \/ \E ty \in UnknownTypes : UnknownFrame(1, ty) /\ UNCHANGED aggVars
    \/ \E ty \in FieldTypes : InvalidFrame(1, ty) /\ UNCHANGED aggVars
    \/ \E shape \in {"not_json", "not_object"} :
           FrameRaises(1, shape) /\ UNCHANGED aggVars
    \/ \E s \in Sessions : DisconnectBegin(s) /\ UNCHANGED aggVars
    \/ \E s \in Sessions : DisconnectOffline(s) /\ UNCHANGED aggVars
    \/ \E s \in Sessions : DisconnectFinish(s) /\ UNCHANGED aggVars

SpecFrames == Init /\ [][FramesNext]_vars

\* Typing indicators: websocket 1 (user 1, instance 1) types in channel 1;
\* websocket 2 carries any user's token, reaches any instance, subscribes to
\* channel 1 and may leave.
TypingNext ==
    \/ ConnectNext
    \/ \E s \in Sessions :
           1 \notin subscribed_channels[s] /\ SubscribeBegin(s, 1) /\ UNCHANGED aggVars
    \/ \E s \in Sessions : SubscribeFinish(s) /\ UNCHANGED aggVars
    \/ TypingStart(1, 1) /\ UNCHANGED aggVars
    \/ TypingStop(1, 1) /\ UNCHANGED aggVars
    \/ TypingBroadcast(1) /\ UNCHANGED aggVars
    \/ TypingExpire(1) /\ UNCHANGED aggVars
    \/ DisconnectBegin(2) /\ UNCHANGED aggVars
    \/ DisconnectOffline(2) /\ UNCHANGED aggVars
    \/ DisconnectFinish(2) /\ UNCHANGED aggVars

SpecTyping == Init /\ [][TypingNext]_vars

\* Delivery to a websocket that goes away: both websockets of instance 1
\* subscribe to channel 1, websocket 1 sends one message, websocket 2's sink
\* may stall and websocket 2 may unsubscribe or disconnect at any point, and
\* the listener tasks deliver.
DeliveryNext ==
    \/ \E s \in Sessions : s \in Users /\ ConnectAccept(s, s, 1) /\ UNCHANGED aggVars
    \/ \E s \in Sessions : ConnectOnline(s) /\ UNCHANGED aggVars
    \/ \E s \in Sessions : ConnectPublish(s) /\ UNCHANGED aggVars
    \/ \E s \in Sessions :
           1 \notin subscribed_channels[s] /\ SubscribeBegin(s, 1) /\ UNCHANGED aggVars
    \/ \E s \in Sessions : SubscribeFinish(s) /\ UNCHANGED aggVars
    \/ msgSeq = 0 /\ SendCommit(1, 1, "hi", TRUE) /\ UNCHANGED aggVars
    \/ SendPublish(1, TRUE) /\ UNCHANGED aggVars
    \/ ListenerNextStep
    \/ \E i \in Instances, t \in 1..MaxHandlers :
           ListenerSendReturns(i, t) /\ UNCHANGED aggVars
    \/ SinkStalls(2) /\ UNCHANGED aggVars
    \/ SinkDrains(2) /\ UNCHANGED aggVars
    \/ Unsubscribe(2, 1) /\ UNCHANGED aggVars
    \/ DisconnectBegin(2) /\ UNCHANGED aggVars
    \/ DisconnectOffline(2) /\ UNCHANGED aggVars
    \/ DisconnectFinish(2) /\ UNCHANGED aggVars

SpecDelivery == Init /\ [][DeliveryNext]_vars

\* Writers of one websocket: websocket 2 subscribes to both channels on
\* instance 1, websocket 1 sends a message to each, websocket 2's sink may
\* stall, and the channels' listener tasks deliver.
WritersNext ==
    \/ \E s \in Sessions : s \in Users /\ ConnectAccept(s, s, 1) /\ UNCHANGED aggVars
    \/ \E s \in Sessions : ConnectOnline(s) /\ UNCHANGED aggVars
    \/ \E s \in Sessions : ConnectPublish(s) /\ UNCHANGED aggVars
    \/ \E c \in Channels :
           c \notin subscribed_channels[2] /\ SubscribeBegin(2, c) /\ UNCHANGED aggVars
    \/ SubscribeFinish(2) /\ UNCHANGED aggVars
    \/ \E c \in Channels : SendCommit(1, c, "hi", TRUE) /\ UNCHANGED aggVars
    \/ SendPublish(1, TRUE) /\ UNCHANGED aggVars
    \/ ListenerNextStep
    \/ \E i \in Instances, t \in 1..MaxHandlers :
           ListenerSendReturns(i, t) /\ UNCHANGED aggVars
    \/ SinkStalls(2) /\ UNCHANGED aggVars
    \/ SinkDrains(2) /\ UNCHANGED aggVars

SpecWriters == Init /\ [][WritersNext]_vars

\* The aggregator fed message.created events of every message_type, the
\* store's types and malformed ones.
TypedEvents ==
    {[event_type |-> "message.created", user_id |-> u, channel_id |-> c,
      message_type |-> mt] :
        u \in AggUsers, c \in AggChannels,
        mt \in MessageTypes \cup {UnlistedType, UnhashableType}}

AggTypesNext ==
    \/ \E ev \in TypedEvents, dbOk \in BOOLEAN :
           process_event(ev, dbOk) /\ UNCHANGED wsVars
    \/ \E dbOk \in BOOLEAN : PeriodicFlush(dbOk) /\ UNCHANGED wsVars
    \/ \E dbOk \in BOOLEAN : StopConsuming(dbOk) /\ UNCHANGED wsVars
    \/ Tick /\ UNCHANGED wsVars

SpecAggTypes == Init /\ [][AggTypesNext]_vars

\* Every write that publishes, on channel 1: message.send of websocket 1
\* (user 1 on instance 1), POST /messages/ of user 2, and PUT and DELETE
\* /messages/{id}, with every outcome of the store and of the brokers.
ChangesNext ==
    \/ ConnectAccept(1, 1, 1) /\ UNCHANGED aggVars
    \/ ConnectOnline(1) /\ UNCHANGED aggVars
    \/ ConnectPublish(1) /\ UNCHANGED aggVars
    \/ \E dbOk \in BOOLEAN : SendCommit(1, 1, "hi", dbOk) /\ UNCHANGED aggVars
    \/ \E pubOk \in BOOLEAN : SendPublish(1, pubOk) /\ UNCHANGED aggVars
    \/ \E allowed \in BOOLEAN, dbOk \in BOOLEAN :
           RestCommit(2, 1, allowed, dbOk) /\ UNCHANGED aggVars
    \/ \E m \in MsgIds, kafkaOk \in BOOLEAN : RestPublish(m, kafkaOk) /\ UNCHANGED aggVars
    \/ \E m \in MsgIds, allowed \in BOOLEAN, dbOk \in BOOLEAN :
           update_message(m, allowed, dbOk) /\ UNCHANGED aggVars
    \/ \E m \in MsgIds, allowed \in BOOLEAN, dbOk \in BOOLEAN :
           delete_message(m, allowed, dbOk) /\ UNCHANGED aggVars
    \/ \E m \in MsgIds, kafkaOk \in BOOLEAN : PublishChange(m, kafkaOk) /\ UNCHANGED aggVars

SpecChanges == Init /\ [][ChangesNext]_vars

\* The aggregator with its clock and its store.
AggNext ==
    \/ \E ev \in Events, dbOk \in BOOLEAN : process_event(ev, dbOk) /\ UNCHANGED wsVars
    \/ ProcessNonObject /\ UNCHANGED wsVars
    \/ \E raises, dbOk \in BOOLEAN : UndecodableRecord(raises, dbOk) /\ UNCHANGED wsVars
    \/ \E dbOk \in BOOLEAN : PeriodicFlush(dbOk) /\ UNCHANGED wsVars
    \/ \E dbOk \in BOOLEAN : StopConsuming(dbOk) /\ UNCHANGED wsVars
    \/ Tick /\ UNCHANGED wsVars

SpecAgg == Init /\ [][AggNext]_vars

\* The window arithmetic: the aggregator started at any second of the run,
\* the clock advancing second by second, one sender's messages arriving.
WindowInit ==
    /\ WsInit
    /\ now \in 0..MaxTime
    /\ AggStart

WindowEvent ==
    [event_type |-> "message.created", user_id |-> 1, channel_id |-> 1,
     message_type |-> "text"]

WindowNext ==
    \/ \E d \in 1..TickSeconds : ClockAdvances(d) /\ UNCHANGED wsVars
    \/ process_event(WindowEvent, TRUE) /\ UNCHANGED wsVars
    \/ PeriodicFlush(TRUE) /\ UNCHANGED wsVars

SpecWindow == WindowInit /\ [][WindowNext]_vars

\* ================================================================ claims
\* No connect, disconnect, subscribe, unsubscribe or send is mid-execution.
Quiescent == \A s \in Sessions : pc[s] \in {"new", "active", "closed"}

\* The connected sessions: accepted, registered, in their message loop.
Connected(s) == pc[s] = "active"

\* The manager's channel index of a session's instance covers the session: a
\* broadcast to the channel reaches it.
IndexCovers(s, c) == user[s] \in channel_members[instance_of[s]][c]

\* C1: whenever no manager operation is mid-execution, every connected session
\* is registered under its user, and the channel index covers it for exactly
\* the channels of its own subscribed-channel set.
C1_IndexMatchesSubscriptions ==
    Quiescent =>
        \A s \in Sessions : Connected(s) =>
            /\ s \in active_connections[instance_of[s]][user[s]]
            /\ \A c \in Channels : IndexCovers(s, c) <=> c \in subscribed_channels[s]

\* No session of instance i tracks channel c.
NoLocalSubscriber(i, c) ==
    \A s \in Sessions : instance_of[s] = i => c \notin subscribed_channels[s]

\* C2: whenever an instance has no local subscriber of a channel, its broker
\* adapter holds no handler, no listener task and no pub/sub subscription for
\* the channel.
C2_NoSubscriptionWithoutSubscribers ==
    Quiescent =>
        \A i \in Instances, c \in Channels : NoLocalSubscriber(i, c) =>
            /\ message_handlers[i][c] = {}
            /\ subscription_tasks[i][c] = 0
            /\ c \notin pubsub_subs[i]

\* C3: the presence key of a user exists exactly when the user has a live
\* session on some instance.
C3_PresenceIffSession ==
    Quiescent =>
        \A u \in Users : u \in presence <=> \E s \in Sessions : Connected(s) /\ user[s] = u

\* The frames of message m a session has received, and where the first is.
Count(seq, m) == Cardinality({k \in DOMAIN seq : seq[k] = m})
Received(s, m) == \E k \in DOMAIN recv[s] : recv[s][k] = m
FirstIndex(seq, m) == CHOOSE k \in DOMAIN seq : seq[k] = m /\ \A j \in 1..(k - 1) : seq[j] # m

\* Message m was persisted and published to its fan-out channel.
Published(m) == attempt[m].kind = "ws" /\ attempt[m].stage = "published"

\* Nothing is in flight: no frame is being handled, every pub/sub queue is
\* drained and every listener task is back in listen().
FanoutDone ==
    /\ Quiescent
    /\ \A i \in Instances :
        /\ pubsub_q[i] = <<>>
        /\ \A t \in DOMAIN tasks[i] : tasks[i][t].st = "idle"

\* C4: of two messages one session sent to one channel, a session that
\* received both received the earlier one first.
C4_SameSenderOrder ==
    \A s \in Sessions, m1 \in MsgIds, m2 \in MsgIds :
        ( /\ m1 < m2
          /\ Published(m1) /\ Published(m2)
          /\ attempt[m1].sess = attempt[m2].sess
          /\ attempt[m1].ch = attempt[m2].ch
          /\ Received(s, m1) /\ Received(s, m2) )
        => FirstIndex(recv[s], m1) < FirstIndex(recv[s], m2)

\* C5: once everything in flight is delivered, every session that was
\* subscribed to the channel when a message was published (the sender's
\* included) has received its message.receive frame, which carries the
\* content, the channel and the sender's username.
C5_SubscribersReceive ==
    FanoutDone =>
        \A m \in MsgIds : Published(m) =>
            /\ frame[m].content = attempt[m].content
            /\ frame[m].channel_id = attempt[m].ch
            /\ frame[m].username = Username(user[attempt[m].sess])
            /\ \A s \in attempt[m].audience : Connected(s) => Received(s, m)

\* C6: a subscribed session on another instance than the publisher's receives
\* exactly one frame per message.
C6_ExactlyOnceAcrossInstances ==
    FanoutDone =>
        \A m \in MsgIds : Published(m) =>
            \A s \in attempt[m].audience :
                (Connected(s) /\ instance_of[s] # instance_of[attempt[m].sess])
                => Count(recv[s], m) = 1

\* Message m is queued for fan-out on some instance.
Queued(m) ==
    \E i \in Instances : \E k \in DOMAIN pubsub_q[i] : pubsub_q[i][k].msg = m

\* A message.send whose insert did not commit: the attempt was made over a
\* websocket and no row exists.
InsertFailed(m) ==
    m <= msgSeq /\ attempt[m].kind = "ws" /\ m \notin rows

\* The step in which session s handles a message.send whose insert fails.
InsertFails(s) ==
    /\ msgSeq' = msgSeq + 1
    /\ attempt'[msgSeq'].kind = "ws"
    /\ attempt'[msgSeq'].sess = s
    /\ msgSeq' \notin rows'

\* C7: when the insert of a message.send fails, the sender gets an error
\* frame, nothing is published for the message, and the session stays open
\* for its next frame.
C7_FailedInsertErrorNoPublish ==
    /\ [](\A m \in MsgIds : InsertFailed(m) =>
              /\ attempt[m].errored
              /\ frame[m] = NoFrame
              /\ ~Queued(m))
    /\ [][\A s \in Sessions : InsertFails(s) =>
              /\ errors'[s] = errors[s] + 1
              /\ frame' = frame /\ pubsub_q' = pubsub_q
              /\ pc'[s] = "active" /\ client_state'[s] = "CONNECTED"
              /\ s \in active_connections'[instance_of[s]][user[s]]]_vars

\* A session whose first message.send failed at the insert got the error
\* frame and then sent a second message, which was committed.
C7_Witness ==
    \E m1 \in MsgIds, m2 \in MsgIds :
        /\ m1 < m2
        /\ InsertFailed(m1) /\ attempt[m1].errored
        /\ attempt[m2].kind = "ws" /\ attempt[m2].sess = attempt[m1].sess
        /\ m2 \in rows
        /\ errors[attempt[m1].sess] = 1

\* The step in which the publish of a committed message fails: over the
\* websocket the frame ends with nothing published, over REST the response is
\* produced with nothing appended to the topic.
WsPublishFails(s) ==
    /\ pc[s] = "send_publish" /\ pc'[s] # "send_publish"
    /\ frame'[cur[s]] = NoFrame
RestPublishFails(m) ==
    /\ attempt[m].kind = "rest" /\ m \in rows
    /\ attempt[m].stage = "committed" /\ attempt'[m].stage # "committed"
    /\ kafka_log' = kafka_log

\* C8: once the insert has committed, a failed publish (Redis PUBLISH over
\* the websocket, Kafka send over REST) is not reported to the sender: no
\* error frame, the REST response is 201, the row stays, and the session is
\* ready for its next frame.
C8_PublishFailureNotReported ==
    /\ [](\A m \in MsgIds : attempt[m].stage = "publish_failed" =>
              /\ m \in rows
              /\ ~attempt[m].errored
              /\ attempt[m].kind = "rest" => attempt[m].response = 201)
    /\ [][/\ \A s \in Sessions : WsPublishFails(s) =>
                 /\ errors' = errors
                 /\ cur[s] \in rows'
                 /\ ~attempt'[cur[s]].errored
                 /\ pc'[s] = "active"
          /\ \A m \in MsgIds : RestPublishFails(m) =>
                 /\ attempt'[m].response = 201
                 /\ ~attempt'[m].errored
                 /\ m \in rows'
                 /\ errors' = errors]_vars

\* Both transports have had a committed message whose publish failed.
C8_Witness ==
    \E m1 \in MsgIds, m2 \in MsgIds :
        /\ attempt[m1].kind = "ws" /\ attempt[m1].stage = "publish_failed"
        /\ attempt[m2].kind = "rest" /\ attempt[m2].stage = "publish_failed"
        /\ {m1, m2} \subseteq rows

\* The sum of message_count over the first k MessageMetrics rows of the store.
RECURSIVE FlushedMessageCount(_)
FlushedMessageCount(k) ==
    IF k = 0 THEN 0
    ELSE message_metrics_rows[k].message_count + FlushedMessageCount(k - 1)

\* C9: while the aggregator runs, the message_count of all MessageMetrics
\* rows written plus the message_count of the current window equals the
\* number of message.created events (with user_id and channel_id) processed.
C9_CountsConserved ==
    running =>
        FlushedMessageCount(Len(message_metrics_rows)) + message_count
            = created_processed

\* C10: a flush the store rejects, at a window rollover or from the periodic
\* timer, leaves window_start and what the buffers hold as they were (an
\* event processed in the same step only adds to them).
C10_FailedFlushKeepsBuffers ==
    [][flush_failures' = flush_failures + 1 =>
          /\ current_window_start' = current_window_start
          /\ message_count' >= message_count
          /\ active_users \subseteq active_users'
          /\ unique_senders \subseteq unique_senders'
          /\ active_channels \subseteq active_channels'
          /\ DOMAIN channel_metrics \subseteq DOMAIN channel_metrics'
          /\ DOMAIN user_metrics \subseteq DOMAIN user_metrics']_vars

\* The message.created events ingested in window w, summed over the channels S.
RECURSIVE CreatedInWindow(_, _)
CreatedInWindow(w, S) ==
    IF S = {} THEN 0
    ELSE LET c == CHOOSE x \in S : TRUE IN
         created_log[w][c] + CreatedInWindow(w, S \ {c})

\* The step in which a record never reaches the body of process_event: its
\* bytes cannot be decoded, or its value is no object.
UnreadableRecordStep ==
    \/ ProcessNonObject
    \/ \E raises, dbOk \in BOOLEAN : UndecodableRecord(raises, dbOk)

\* The step in which an event is ingested at a time whose aligned window
\* start differs from the stored one.
RolloverIngest ==
    /\ consumed' = consumed + 1
    /\ _get_window_start(now) # current_window_start
    /\ ~UnreadableRecordStep

\* The rows a flush of the current buffers writes for the stored window.
OldWindowRowsWritten ==
    /\ Len(message_metrics_rows') = Len(message_metrics_rows) + 1
    /\ LET r == message_metrics_rows'[Len(message_metrics_rows')] IN
           /\ r.time_window = current_window_start
           /\ r.message_count = message_count
           /\ r.messages_per_second = <<message_count, metrics_window_seconds>>
    /\ \A c \in DOMAIN channel_metrics :
           \E r \in channel_metrics_rows' \ channel_metrics_rows :
               /\ r.channel_id = c
               /\ r.time_window = current_window_start
               /\ r.message_count = channel_metrics[c].message_count
               /\ r.created_count = channel_metrics[c].created

\* C11: an event ingested in a new window makes the aggregator write the
\* buffered counts as the rows of the old window (when the store accepts
\* them), clear the buffers and advance window_start before it counts the
\* event; so every row written for a window holds exactly the message.created
\* events ingested in that window, overall and per channel.
C11_RolloverFlushesOldWindow ==
    /\ [](/\ \A k \in DOMAIN message_metrics_rows :
                LET r == message_metrics_rows[k] IN
                /\ r.message_count = CreatedInWindow(r.time_window, AggChannels)
                /\ r.messages_per_second = <<r.message_count, metrics_window_seconds>>
          /\ \A r \in channel_metrics_rows :
                /\ r.message_count = created_log[r.time_window][r.channel_id]
                /\ r.created_count = created_log[r.time_window][r.channel_id])
    /\ [][RolloverIngest =>
              /\ flush_failures' = flush_failures => OldWindowRowsWritten
              /\ current_window_start' = _get_window_start(now)
              /\ message_count' = created_processed' - created_processed
              /\ active_channels' \subseteq DOMAIN channel_metrics'
              /\ Cardinality(DOMAIN channel_metrics') <= 1
              /\ Cardinality(DOMAIN user_metrics') <= 1]_vars

\* Two message.created events for one channel were ingested in the first
\* window and one in the next: the first window's rows hold 2, the buffer 1.
C11_Witness ==
    \E c \in AggChannels :
        /\ Len(message_metrics_rows) = 1
        /\ message_metrics_rows[1].time_window = 0
        /\ message_metrics_rows[1].message_count = 2
        /\ message_metrics_rows[1].messages_per_second = <<2, metrics_window_seconds>>
        /\ \E r \in channel_metrics_rows :
               /\ r.channel_id = c /\ r.time_window = 0
               /\ r.message_count = 2 /\ r.created_count = 2
        /\ created_log[0][c] = 2
        /\ current_window_start = metrics_window_seconds
        /\ created_log[metrics_window_seconds][c] = 1
        /\ message_count = 1
        /\ flush_failures = 0

\* The buffers of the current window hold aggregated data: created, edited
\* or deleted counts.
BuffersHoldData ==
    \/ message_count > 0
    \/ DOMAIN channel_metrics # {}
    \/ DOMAIN user_metrics # {}

\* C12: while the aggregator runs, a window that holds aggregated data and is
\* at least metrics_window_seconds old is flushed by the periodic timer at its
\* check, without any new event.
C12_PeriodicFlushWritesBufferedData ==
    (running /\ BuffersHoldData
        /\ now - current_window_start >= metrics_window_seconds)
    => ENABLED (\E dbOk \in BOOLEAN : PeriodicFlush(dbOk) /\ UNCHANGED wsVars)

\* C13: the store holds at most one MessageMetrics row per window start, at
\* most one ChannelMetrics row per channel and window start and at most one
\* UserMetrics row per user and window start, and the rows of one flush carry
\* the time_window of that flush's MessageMetrics row.
C13_OneRowPerWindow ==
    /\ \A j \in DOMAIN message_metrics_rows, k \in DOMAIN message_metrics_rows :
           message_metrics_rows[j].time_window = message_metrics_rows[k].time_window
           => j = k
    /\ \A r1 \in channel_metrics_rows, r2 \in channel_metrics_rows :
           (r1.channel_id = r2.channel_id /\ r1.time_window = r2.time_window)
           => r1 = r2
    /\ \A r1 \in user_metrics_rows, r2 \in user_metrics_rows :
           (r1.user_id = r2.user_id /\ r1.time_window = r2.time_window)
           => r1 = r2
    /\ \A r \in channel_metrics_rows \cup user_metrics_rows :
           /\ r.id[1] \in DOMAIN message_metrics_rows
           /\ r.time_window = message_metrics_rows[r.id[1]].time_window

\* Three windows were flushed, the last one at shutdown, each with channel
\* and user rows.
C13_Witness ==
    /\ ~running
    /\ Len(message_metrics_rows) = 3
    /\ \A k \in 1..3 :
           /\ message_metrics_rows[k].message_count = 1
           /\ \E r \in channel_metrics_rows : r.id[1] = k
           /\ \E r \in user_metrics_rows : r.id[1] = k

\* Listener task t of instance i waits in a send to a stalled sink while a
\* later handler of the same dispatch belongs to a connected session with an
\* open sink that has not got the frame.
SendWaitsBehindStalled(i, t) ==
    LET tk == tasks[i][t]
        hs == message_handlers[i][tk.ch] IN
    /\ tk.st = "sending"
    /\ sink[tk.to] = "stalled"
    /\ Cardinality(hs) = tk.n
    /\ \E k \in (tk.idx + 1)..tk.n :
           LET h == NthHandler(hs, k) IN
           /\ HandlerDelivers(h)
           /\ sink[h.sess] = "open"
           /\ ~Received(h.sess, tk.msg)

\* C14: a broadcast does not wait on a stalled subscriber: no listener task
\* holds back the frame of a subscriber with an open sink behind a send to a
\* stalled one, and a session that broadcasts a typing indicator can proceed.
C14_BroadcastNotBlockedBySlowPeer ==
    /\ \A i \in Instances : \A t \in DOMAIN tasks[i] : ~SendWaitsBehindStalled(i, t)
    /\ \A s \in Sessions :
           pc[s] \in {"typing_start", "typing_stop"}
           => ENABLED (TypingBroadcast(s) /\ UNCHANGED aggVars)

\* Session s is detached from its instance's connection manager: it is in
\* neither the user index nor the websocket lookup, and a user left without a
\* connection is in no channel index.
Detached(s) ==
    LET i == instance_of[s]
        u == user[s] IN
    /\ s \notin active_connections[i][u]
    /\ websocket_to_user[i][s] = 0
    /\ active_connections[i][u] = {} => \A c \in ChannelKeys : u \notin channel_members[i][c]

\* C15: once nothing is in flight, every session a broadcast frame could not
\* be delivered to is detached from the connection manager, and every other
\* session subscribed when a message was published has received its frame.
C15_FailedDeliveryDetaches ==
    FanoutDone =>
        /\ \A s \in delivery_failed : Detached(s)
        /\ \A m \in MsgIds : Published(m) =>
               \A s \in attempt[m].audience \ delivery_failed : Received(s, m)

\* The handlers of session s registered with its instance's RedisManager.
HandlersOf(s) ==
    {h \in UNION {message_handlers[instance_of[s]][c] : c \in ChannelKeys} :
        h.sess = s}

\* The channels whose typing:<c> hash holds the field of session s's user.
TypingOf(s) == {c \in Channels : user[s] \in typing[c]}

\* The user of session s has no other session that is not closed.
LastSessionOfUser(s) ==
    \A o \in Sessions \ {s} : user[o] = user[s] => pc[o] = "closed"

\* C16: a session that was accepted and is now closed has been cleaned up: it
\* is detached from the connection manager, none of its broker handlers is
\* still registered, and its user's typing entries are cleared.
C16_CleanupCompletesBeforeClosed ==
    \A s \in Sessions :
        (pc[s] = "closed" /\ user[s] # 0) =>
            /\ Detached(s)
            /\ HandlersOf(s) = {}
            /\ LastSessionOfUser(s) => TypingOf(s) = {}

\* Session s was refused at authentication: closed without ever having a user.
AuthRejected(s) == pc[s] = "closed" /\ user[s] = 0

\* C17: a connection refused at authentication is closed with code 1008, and
\* code 1011 is given only to connections that had been authenticated.
C17_AuthFailureClosesWith1008 ==
    \A s \in Sessions :
        /\ AuthRejected(s) => close_code[s] = WS_1008_POLICY_VIOLATION
        /\ close_code[s] = WS_1011_INTERNAL_ERROR => user[s] # 0

\* C18: a frame of an unknown type gives its sender exactly one error frame
\* naming the type, sends nothing to anyone else, changes no connection
\* manager, broker, presence, typing or durable state, and leaves the session
\* active and open, so that a later ping is served.
C18_UnknownTypeErrorSessionStays ==
    /\ [](\A s \in Sessions :
              (pc[s] = "active" /\ bad_frame[s].shape = "unknown_type")
              => ENABLED (Ping(s) /\ UNCHANGED aggVars))
    /\ [][\A s \in Sessions, ty \in UnknownTypes :
              UnknownFrame(s, ty) =>
                  /\ errors'[s] = errors[s] + 1
                  /\ last_error'[s] = WSError("Unknown message type", ty)
                  /\ \A o \in Sessions \ {s} :
                         /\ errors'[o] = errors[o]
                         /\ last_error'[o] = last_error[o]
                         /\ recv'[o] = recv[o]
                  /\ UNCHANGED <<cmVars, rmVars, redisVars, dbVars>>
                  /\ UNCHANGED <<subscribed_channels, typing, recv>>
                  /\ pc'[s] = "active"
                  /\ client_state'[s] = "CONNECTED"
                  /\ close_code'[s] = 0]_vars

\* A session got the error frame for an unknown type and is now in the middle
\* of serving a later typing.start frame.
C18_Witness ==
    \E s \in Sessions :
        /\ bad_frame[s].shape = "unknown_type"
        /\ bad_frame[s].reply = "error"
        /\ last_error[s] = WSError("Unknown message type", bad_frame[s].type)
        /\ errors[s] = 1
        /\ pc[s] = "typing_start"

\* C19: every refused frame was answered with an error frame (and so the
\* websocket was not closed because of it).
C19_InvalidFrameGetsError ==
    \A s \in Sessions :
        bad_frame[s] # NoBadFrame => bad_frame[s].reply = "error"

\* C20: no subscription is ever registered for a malformed channel id, in the
\* connection manager's channel index, in the broker handler registry, or in
\* a session's subscribed set.
C20_MalformedSubscribeRegistersNothing ==
    /\ \A i \in Instances :
           channel_members[i][0] = {} /\ message_handlers[i][0] = {}
    /\ \A s \in Sessions : 0 \notin subscribed_channels[s]

\* Session o is subscribed to channel c and belongs to another user than s.
OtherSubscriber(o, s, c) ==
    /\ c \in subscribed_channels[o]
    /\ user[o] # user[s]
    /\ pc[o] = "active"

\* C21: when the broadcast of a typing.start or typing.stop frame of session s
\* for channel c is done, every session of another user subscribed to c, on
\* whatever instance, has received the typing.indicator frame (is_typing true
\* for typing.start, false for typing.stop).
C21_TypingReachesSubscribers ==
    [][\A s \in Sessions :
          TypingBroadcast(s) =>
              \A o \in Sessions :
                  OtherSubscriber(o, s, cur[s]) =>
                      typing_frames'[o] = Append(typing_frames[o],
                          WSTypingIndicator(s, cur[s], pc[s] = "typing_start"))]_vars

\* C22: no session ever holds a typing.indicator frame of its own user.
C22_NoOwnTypingFrame ==
    \A s \in Sessions : \A k \in DOMAIN typing_frames[s] :
        typing_frames[s][k].user_id # user[s]

\* Websocket 2 got the frames of user 1's typing.start and typing.stop while
\* websocket 1, subscribed to the same channel, got none.
C22_Witness ==
    /\ Len(typing_frames[2]) = 2
    /\ \A k \in DOMAIN typing_frames[2] : typing_frames[2][k].user_id = user[1]
    /\ 1 \in subscribed_channels[1]
    /\ user[1] \in channel_members[1][1]
    /\ typing_frames[1] = <<>>

\* C23: a typing.stop leaves the user's field absent from typing:<c>, and a
\* typing.stop that found no field to remove has no effect: the broadcast that
\* ends it changes nothing in the typing hashes, the presence keys or the
\* connection manager and sends no frame.
C23_SecondTypingStopIsNoOp ==
    [][\A s \in Sessions :
          /\ \A c \in Channels : TypingStop(s, c) => user[s] \notin typing'[c]
          /\ (TypingBroadcast(s) /\ pc[s] = "typing_stop" /\ hdel_count[s] = 0)
             => UNCHANGED <<typing, redisVars, cmVars, typing_frames, recv>>]_vars

\* The channel index of session s's instance after s subscribes to c and then
\* unsubscribes from it.
SubscribedThenUnsubscribed(s, c) ==
    unsubscribe_from_channel(
        subscribe_to_channel(channel_members[instance_of[s]], user[s], c),
        user[s], c)

\* C24: in every reachable state, a session not subscribed to channel c that
\* subscribes to c and then unsubscribes leaves its instance's channel index as
\* it was, whatever other sessions are subscribed to c.
C24_SubscribeUnsubscribeRoundTrip ==
    \A s \in Sessions, c \in Channels :
        (pc[s] = "active" /\ c \notin subscribed_channels[s])
        => SubscribedThenUnsubscribed(s, c) = channel_members[instance_of[s]]

\* C25: a ping gives its sender exactly one pong and no one else any, leaves
\* the user's presence key set, and changes neither the durable store, the
\* connection manager's indexes, the broker registry nor any session's
\* subscriptions.
C25_PingPongOnly ==
    [][\A s \in Sessions :
          Ping(s) =>
              /\ pongs'[s] = pongs[s] + 1
              /\ \A o \in Sessions \ {s} : pongs'[o] = pongs[o]
              /\ user[s] \in presence'
              /\ UNCHANGED <<dbVars, cmVars, rmVars, subscribed_channels>>
              /\ UNCHANGED <<recv, errors, typing_frames, last_error>>]_vars

\* A session got its pong and its user's presence key is set although another
\* session of the user has been closed.
C25_Witness ==
    \E s \in Sessions :
        /\ pongs[s] = 1
        /\ pc[s] = "active"
        /\ user[s] \in presence
        /\ \E o \in Sessions \ {s} : user[o] = user[s] /\ pc[o] = "closed"

\* C26: an online event is published only for a websocket whose attach gave
\* its user the first connection on the instance, and a detach goes on to
\* mark the user offline and publish the offline event exactly when it removed
\* the user's last connection.
C26_PresenceEventsOnTransitions ==
    [][\A s \in Sessions :
          /\ ConnectPublish(s) => attached_as[s] = 1
          /\ DisconnectBegin(s) =>
                 (pc'[s] = "disc_offline"
                  <=> /\ user[s] # 0
                      /\ active_connections'[instance_of[s]][user[s]] = {})]_vars

\* No buffer entry and no flushed row is keyed by a missing id.
NoAggregateForMissingId ==
    /\ 0 \notin active_users \cup unique_senders \cup active_channels
    /\ 0 \notin DOMAIN channel_metrics \cup DOMAIN user_metrics
    /\ \A c \in DOMAIN channel_metrics : 0 \notin channel_metrics[c].unique_senders
    /\ \A u \in DOMAIN user_metrics : 0 \notin user_metrics[u].channels
    /\ \A r \in channel_metrics_rows : r.channel_id # 0
    /\ \A r \in user_metrics_rows : r.user_id # 0

\* C27: an event without user_id or channel_id is skipped. Processing it
\* leaves the buffers as the window rollover of that call left them (flushed
\* and reset when the event opened a new window, untouched otherwise), counts
\* no message, leaves the consume loop running, and no buffer entry or flushed
\* row is ever keyed by a missing id.
C27_MissingFieldEventSkipped ==
    /\ []NoAggregateForMissingId
    /\ [][skipped' # skipped =>
                 /\ CurrentBuffers' =
                        (IF _should_flush_window(now) THEN ResetBuffers
                                                      ELSE CurrentBuffers)
                 /\ created_processed' = created_processed
                 /\ created_log' = created_log
                 /\ running']_vars

\* Events were skipped for a missing field in a run that also counted
\* messages and flushed a window.
C27_Witness ==
    /\ skipped > 0
    /\ created_processed > 0
    /\ message_metrics_rows # <<>>
    /\ channel_metrics_rows # {}

\* The window totals of buffers b.
Totals(b) ==
    <<b.message_count, b.unique_senders, b.active_users, b.active_channels,
      b.message_types>>

\* The events that carry both ids and are not message.created.
OtherEvents ==
    {ev \in Events : ev.event_type # "message.created" /\ HasRequiredFields(ev)}

\* The edited or deleted counter of a channel entry and of a user entry.
ChannelCounter(et) == IF et = "message.edited" THEN "edited" ELSE "deleted"
UserCounter(et) ==
    IF et = "message.edited" THEN "messages_edited" ELSE "messages_deleted"

\* C28: only message.created changes the window totals. Measured against
\* the buffers the rollover block of the same call left, a message.edited or
\* message.deleted event leaves the totals alone and adds one to the edited
\* or deleted counter of its channel's entry and of its user's entry, changing
\* nothing else in them; an event of any other type leaves every buffer alone.
C28_OnlyCreatedChangesTotals ==
    [][consumed' # consumed =>
         \A ev \in OtherEvents, dbOk \in BOOLEAN :
             process_event(ev, dbOk) =>
                 LET b == IF _should_flush_window(now) THEN ResetBuffers
                                                       ELSE CurrentBuffers
                     c == ev.channel_id
                     u == ev.user_id
                     cm == Entry(b.channel_metrics, c, NewChannelMetrics)
                     um == Entry(b.user_metrics, u, NewUserMetrics) IN
                 /\ Totals(CurrentBuffers') = Totals(b)
                 /\ IF ev.event_type \in {"message.edited", "message.deleted"}
                    THEN /\ channel_metrics' = Put(b.channel_metrics, c,
                                [cm EXCEPT ![ChannelCounter(ev.event_type)] = @ + 1])
                         /\ user_metrics' = Put(b.user_metrics, u,
                                [um EXCEPT ![UserCounter(ev.event_type)] = @ + 1])
                    ELSE /\ channel_metrics' = b.channel_metrics
                         /\ user_metrics' = b.user_metrics]_vars

\* One message was counted, and a channel and a user each have an edit and a
\* deletion counted that the totals do not show.
C28_Witness ==
    /\ message_count = 1
    /\ \E c \in DOMAIN channel_metrics :
           channel_metrics[c].edited = 1 /\ channel_metrics[c].message_count = 0
    /\ \E u \in DOMAIN user_metrics :
           user_metrics[u].messages_deleted = 1 /\ user_metrics[u].messages_sent = 0

\* A step in which the aggregator receives a malformed event: a record that
\* cannot be decoded, a value that is no object, or an event without user_id
\* or channel_id.
MalformedEventStep ==
    \/ \E raises, dbOk \in BOOLEAN : UndecodableRecord(raises, dbOk)
    \/ ProcessNonObject
    \/ skipped' # skipped

\* C29: a malformed event never stops consumption: after the step that
\* receives it the consume loop and the periodic flush are still running.
C29_MalformedEventKeepsConsuming ==
    [][MalformedEventStep => running']_vars

\* Timestamp t lies in the window of window_seconds seconds that begins at start.
InWindow(t, start, window_seconds) == start <= t /\ t < start + window_seconds

\* C30: for every timestamp at or after the epoch and every window size
\* W > 0 the computed window start is floor(t / W) * W counted from the epoch:
\* a multiple of W with start <= t < start + W, and another timestamp gets the
\* same start exactly when it lies in that same window. The window the
\* aggregator holds is such a start, and after an event is processed it is
\* the window of the current time.
C30_WindowStartIsAlignedFloor ==
    /\ [](\A W \in 1..MaxWindowSeconds :
             LET start == WindowStartFor(now, W) IN
             /\ start % W = 0
             /\ InWindow(now, start, W)
             /\ \A t \in 0..MaxTime :
                    (WindowStartFor(t, W) = start) <=> InWindow(t, start, W))
    /\ [](/\ current_window_start % metrics_window_seconds = 0
          /\ current_window_start <= now)
    /\ [][consumed' # consumed =>
             /\ current_window_start' = _get_window_start(now)
             /\ InWindow(now, current_window_start', metrics_window_seconds)]_vars

\* An event arriving at a second that is no window boundary rolled the
\* window over: the flushed row is of an earlier window than the current one.
C30_Witness ==
    /\ now % metrics_window_seconds # 0
    /\ message_metrics_rows # <<>>
    /\ message_metrics_rows[1].time_window < current_window_start
    /\ InWindow(now, current_window_start, metrics_window_seconds)

\* The listener task t of instance i calls a handler in this step: it moves
\* on to the handler at a new position of its dispatch.
HandlerCalled(i, t) ==
    /\ t \in DOMAIN tasks[i] /\ t \in DOMAIN tasks'[i]
    /\ tasks'[i][t].st \in {"busy", "sending"}
    /\ tasks'[i][t].idx # tasks[i][t].idx

\* The handler that listener task t of instance i calls in this step.
CalledHandler(i, t) ==
    NthHandler(message_handlers[i][tasks'[i][t].ch], tasks'[i][t].idx)

\* C31: the handler a listener calls looks at the connection state first.
\* When its websocket is not CONNECTED no send is attempted: the websocket
\* gets no frame, no send is left pending and none fails, and the listener
\* goes on with its dispatch. A websocket gets a message.receive frame, and a
\* send to it is started, only while it is CONNECTED.
C31_StaleConnectionFrameDropped ==
    [][/\ \A i \in Instances, t \in 1..MaxHandlers :
             (HandlerCalled(i, t)
                 /\ client_state[CalledHandler(i, t).sess] # "CONNECTED") =>
                 /\ recv' = recv
                 /\ delivery_failed' = delivery_failed
                 /\ tasks'[i][t].st = "busy"
       /\ \A s \in Sessions :
             (client_state[s] # "CONNECTED") =>
                 /\ recv'[s] = recv[s]
                 /\ \A i \in Instances, t \in 1..MaxHandlers :
                        (HandlerCalled(i, t) /\ tasks'[i][t].st = "sending")
                            => tasks'[i][t].to # s]_vars

\* Websocket 2 closed and its handler stayed registered ahead of websocket
\* 1's; the message published afterwards was dispatched past it to websocket
\* 1, and websocket 2 got nothing.
C31_Witness ==
    /\ FanoutDone
    /\ Published(1)
    /\ pc[2] = "closed" /\ client_state[2] = "DISCONNECTED"
    /\ 2 \notin attempt[1].audience
    /\ \E h2 \in message_handlers[1][1], h1 \in message_handlers[1][1] :
           h2.sess = 2 /\ h1.sess = 1 /\ h2.id < h1.id
    /\ Received(1, 1)
    /\ recv[2] = <<>>
    /\ delivery_failed = {}

\* The listener tasks suspended inside send_json on websocket s.
PendingWriters(s) ==
    {it \in Instances \X (1..MaxHandlers) :
        /\ it[2] \in DOMAIN tasks[it[1]]
        /\ tasks[it[1]][it[2]].st = "sending"
        /\ tasks[it[1]][it[2]].to = s}

\* C32: at most one task is inside a write to a websocket at any time.
C32_OneWriterPerConnection ==
    \A s \in Sessions : Cardinality(PendingWriters(s)) <= 1

\* The listener tasks of instance i that were started for channel key c and
\* have not been cancelled.
LiveListenerTasks(i, c) ==
    {t \in DOMAIN tasks[i] : tasks[i][t].key = c /\ tasks[i][t].st # "cancelled"}

\* C33: for every channel key the broker adapter of an instance has at most
\* one listener task, and every listener task it started and has not cancelled
\* is the one subscription_tasks holds for its channel key, so that it can be
\* cancelled.
C33_OneListenerTaskPerChannel ==
    \A i \in Instances, c \in Channels :
        /\ Cardinality(LiveListenerTasks(i, c)) <= 1
        /\ \A t \in LiveListenerTasks(i, c) : subscription_tasks[i][c] = t

\* C34: channel.subscribe is idempotent per session and channel. A
\* channel.subscribe for a channel the session already tracks leaves the
\* manager's channel index, the broker's handler registry and the session's
\* subscribed set as they were, and no session receives the frame of one
\* message more than once.
C34_SubscribeIdempotent ==
    /\ [](\A s \in Sessions, m \in MsgIds : Count(recv[s], m) <= 1)
    /\ [][\A s \in Sessions, c \in Channels :
             (SubscribeBegin(s, c) /\ c \in subscribed_channels[s]) =>
                 /\ channel_members' = channel_members
                 /\ message_handlers' = message_handlers
                 /\ subscribed_channels' = subscribed_channels]_vars

\* The last element of a non-empty sequence.
Last(seq) == seq[Len(seq)]

\* Session s tracks channel c as subscribed, or its channel.subscribe for c
\* is being handled.
SubscribedOrSubscribing(s, c) ==
    \/ c \in subscribed_channels[s]
    \/ pc[s] = "sub_wait" /\ cur[s] = c

\* C35: a websocket receives a message.receive or typing.indicator frame
\* for a channel only while its own session tracks the channel as subscribed
\* (or is being subscribed to it): none after its channel.unsubscribe was answered, and none for a channel
\* only another session of its user subscribed to.
C35_FramesOnlyWhileSubscribed ==
    [][\A s \in Sessions :
          /\ Len(recv'[s]) > Len(recv[s]) =>
                 SubscribedOrSubscribing(s, attempt[Last(recv'[s])].ch)
          /\ Len(typing_frames'[s]) > Len(typing_frames[s]) =>
                 SubscribedOrSubscribing(s, Last(typing_frames'[s]).channel_id)]_vars

\* The sum of f[k] over the keys K.
RECURSIVE SumOver(_, _)
SumOver(f, K) ==
    IF K = {} THEN 0
    ELSE LET k == CHOOSE x \in K : TRUE IN f[k] + SumOver(f, K \ {k})

\* The rows of one flush: the MessageMetrics row k and the ChannelMetrics and
\* UserMetrics rows written with it.
ChannelRowsOf(k) == {r \in channel_metrics_rows : r.id[1] = k}
UserRowsOf(k) == {r \in user_metrics_rows : r.id[1] = k}

\* The sum of field fld over a set of rows.
RECURSIVE SumRows(_, _)
SumRows(R, fld) ==
    IF R = {} THEN 0
    ELSE LET r == CHOOSE x \in R : TRUE IN r[fld] + SumRows(R \ {r}, fld)

\* C36: the aggregates of a window are consistent with one another, in the
\* buffers and in the rows of every flush: message_count is the sum of the
\* channels' message_count, the sum of the users' messages_sent and the sum
\* of the per-type counters the store keeps, and every channel's
\* message_count is its created count.
C36_AggregatesConsistent ==
    /\ message_count = SumOver([c \in DOMAIN channel_metrics |->
                                   channel_metrics[c].message_count],
                               DOMAIN channel_metrics)
    /\ message_count = SumOver([u \in DOMAIN user_metrics |->
                                   user_metrics[u].messages_sent],
                               DOMAIN user_metrics)
    /\ message_count = SumOver(message_types, MessageTypes)
    /\ \A c \in DOMAIN channel_metrics :
           channel_metrics[c].message_count = channel_metrics[c].created
    /\ \A k \in DOMAIN message_metrics_rows :
           LET r == message_metrics_rows[k] IN
           /\ r.message_count = SumRows(ChannelRowsOf(k), "message_count")
           /\ r.message_count = SumRows(UserRowsOf(k), "messages_sent")
           /\ r.message_count = r.text_messages_count + r.image_messages_count
    /\ \A r \in channel_metrics_rows : r.message_count = r.created_count

\* User u has a session in its message loop on instance i.
HasLocalSession(u, i) ==
    \E s \in Sessions : Connected(s) /\ user[s] = u /\ instance_of[s] = i

\* Every websocket that was ever accepted was accepted by instance i.
OnlyInstance(i) == \A s \in Sessions : instance_of[s] \in {0, i}

\* C37: on one instance, once every connect and disconnect call has
\* completed, the last presence event published for a user is online when the
\* user has a local session and offline (or none at all) when not, and the
\* presence key exists exactly when the user has a local session.
C37_PresenceSettlesAfterInterleaving ==
    (Quiescent /\ OnlyInstance(1)) =>
        \A u \in Users :
            /\ u \in presence <=> HasLocalSession(u, 1)
            /\ HasLocalSession(u, 1) => presence_last[u] = "online"
            /\ ~HasLocalSession(u, 1) => presence_last[u] \in {"offline", "none"}

\* Listener task t of instance i ends the dispatch of its message in this
\* step and goes back to listen().
DispatchEnds(i, t) ==
    /\ t \in DOMAIN tasks[i]
    /\ tasks[i][t].st = "busy"
    /\ tasks'[i][t].st = "idle"

\* C38: a dispatch ends only after the handler at the last position was
\* called: every handler registered for the channel when the dispatch started
\* is invoked with the message, whatever other sessions subscribe or
\* unsubscribe while the dispatch is suspended in a handler.
C38_DispatchReachesEveryHandler ==
    [][\A i \in Instances, t \in 1..MaxHandlers :
          DispatchEnds(i, t) => tasks[i][t].idx = tasks[i][t].n]_vars

\* C39: every message.receive frame published to a fan-out channel and every
\* message.created, message.edited or message.deleted event appended to the
\* event topic refers to a message whose write was committed before the step
\* that publishes it; a step whose write fails publishes nothing.
FramePublished(m) == frame[m] = NoFrame /\ frame'[m] # NoFrame
EventPublished == Len(kafka_log') = Len(kafka_log) + 1
WriteCommittedBefore(e) ==
    LET m == e.message_id IN
    /\ m \in rows
    /\ e.event_type = "message.created" => attempt[m].stage = "committed"
    /\ e.event_type = "message.edited" =>
           m \in is_edited /\ change[m] = [op |-> "edit", stage |-> "committed", response |-> 0]
    /\ e.event_type = "message.deleted" =>
           m \in is_deleted /\ change[m] = [op |-> "delete", stage |-> "committed", response |-> 0]
WriteFails ==
    \/ \E m \in MsgIds : attempt[m].stage = "none" /\ attempt'[m].stage = "failed"
    \/ \E m \in MsgIds : change'[m] # change[m] /\ change'[m].stage = "failed"
C39_PublishedOnlyAfterCommit ==
    /\ [](\A m \in MsgIds : frame[m] # NoFrame => m \in rows)
    /\ [][\A m \in MsgIds : FramePublished(m) =>
              m \in rows /\ attempt[m].stage = "committed"]_vars
    /\ [][kafka_log' # kafka_log =>
              EventPublished /\ WriteCommittedBefore(Last(kafka_log'))]_vars
    /\ [][WriteFails => kafka_log' = kafka_log /\ frame' = frame /\ pubsub_q' = pubsub_q]_vars
C39_Witness ==
    /\ \E m \in MsgIds : frame[m] # NoFrame /\ attempt[m].kind = "ws"
    /\ \E i \in 1..Len(kafka_log) : kafka_log[i].event_type = "message.edited"
    /\ \E i \in 1..Len(kafka_log) : kafka_log[i].event_type = "message.deleted"
    /\ \E m \in MsgIds : change[m].stage = "failed" /\ change[m].response = 500

\* C40: a connection attempt whose token fails authentication leaves the
\* shared state unchanged: the websocket is in no index of any connection
\* manager, the presence key is neither set nor refreshed, no presence event
\* is published, no handler is registered with the Redis bridge, and the
\* websocket gets no session handler.
RefusedStep(s) == pc[s] = "new" /\ pc'[s] = "closed"
InNoIndex(s) ==
    \A i \in Instances :
        /\ websocket_to_user[i][s] = 0
        /\ \A u \in Users : s \notin active_connections[i][u]
NoSessionHandler(s) ==
    /\ user[s] = 0 /\ instance_of[s] = 0 /\ subscribed_channels[s] = {}
    /\ \A i \in Instances, c \in ChannelKeys :
           \A h \in message_handlers[i][c] : h.sess # s
C40_RejectedConnectLeavesNoTrace ==
    /\ [](\A s \in Sessions : AuthRejected(s) => InNoIndex(s) /\ NoSessionHandler(s))
    /\ [][\A s \in Sessions : RefusedStep(s) =>
              /\ UNCHANGED <<cmVars, rmVars, redisVars>>
              /\ InNoIndex(s)' /\ NoSessionHandler(s)']_vars
C40_Witness ==
    /\ AuthRejected(2) /\ close_code[2] = WS_1011_INTERNAL_ERROR
    /\ pc[1] = "active" /\ presence = {1}
    /\ active_connections[1][1] = {1}

====
